---- MODULE Spec2Model ----
(***************************************************************************)
(* A model of one link session of the link editor (LinkerEditor::do_link) *)
(* of linkerloader-rs: module ingestion, library satisfaction, segment    *)
(* layout, common blocks, the undefined check, symbol address resolution  *)
(* and relocation application.                                            *)
(*                                                                         *)
(* Conventions.  Option<T> is a sequence: <<>> is None, <<x>> is Some(x). *)
(* Maps are functions; the empty map is <<>>.  Indices stored in program  *)
(* data (defn_ste_ix, SegmentRef, SymbolRef, FileLib offsets) are 0-based *)
(* as in the source; TLA+ sequences are indexed from 1, hence the "+ 1".  *)
(* Module ids of input modules differ from those of library objects, and  *)
(* a module names each segment at most once.                              *)
(***************************************************************************)
EXTENDS Integers, Sequences, FiniteSets, TLC

(* ------------------------------ bounds -------------------------------- *)
MaxSegLen == 4
MaxSymValue == 2
MaxCommonSize == 3
MaxAlignArg == 8
MaxBoundary == 8
MaxFileNum == 24

(* ------------------------- program constants -------------------------- *)
GotSlotSize == 4

None == <<>>
Some(x) == <<x>>
IsNone(o) == o = <<>>
IsSome(o) == o # <<>>
Unwrap(o) == o[1]

EmptyMap == <<>>
Has(m, k) == k \in DOMAIN m
Insert(m, k, v) == [x \in (DOMAIN m) \cup {k} |-> IF x = k THEN v ELSE m[x]]

TEXT == ".text"
GOT == ".got"
DATA == ".data"
BSS == ".bss"
SegmentNameOrder == <<TEXT, GOT, DATA, BSS>>

RECURSIVE SumSeq(_)
SumSeq(s) == IF s = <<>> THEN 0 ELSE s[1] + SumSeq(Tail(s))

RECURSIVE SumOver(_, _)
SumOver(f, S) ==
  IF S = {} THEN 0
  ELSE LET k == CHOOSE x \in S : TRUE IN f[k] + SumOver(f, S \ {k})

(* Position of an element in a sequence without repetitions (0 if absent) *)
RankIn(seq, x) == IF \E i \in 1..Len(seq) : seq[i] = x
                  THEN CHOOSE i \in 1..Len(seq) : seq[i] = x
                  ELSE 0

(* A set sorted into a sequence by the order given by a master sequence *)
RECURSIVE SortBy(_, _)
SortBy(order, S) ==
  IF S = {} THEN <<>>
  ELSE LET m == CHOOSE x \in S : \A y \in S : RankIn(order, x) <= RankIn(order, y)
       IN <<m>> \o SortBy(order, S \ {m})

(* String order of the object ids and of the symbol names of the model *)
IdOrder == <<"flib_mod_0", "flib_mod_1", "libmod_1", "libmod_2", "mod_1", "mod_2">>
MemberOrder == <<"member_1", "member_2">>
PlainOrder == <<"bar", "foo", "real_foo", "wrap_foo">>

(* SymbolName: SName(s) is the string s, WrappedSName(s) is marked; the   *)
(* derived order puts every SName before every WrappedSName               *)
WrappedSName(n) == "Wrapped:" \o n
NameOrder == PlainOrder \o [i \in 1..Len(PlainOrder) |-> WrappedSName(PlainOrder[i])]

(* SegmentData::new *)
NewSegmentData(len) == [i \in 1..len |-> 0]

(* a concatenation that drops the bytes of the later module *)
Concat_keep(a, b) == a

(* SegmentData::concat *)
Concat(a, b) == a \o b

(* Rust's % truncates towards zero *)
RustRem(i, n) == IF i >= 0 THEN i % n ELSE -((-i) % n)

(* a segment start that ignores the boundary *)
find_seg_start_unaligned(i, n) == i

(* find_seg_start *)
find_seg_start(i, n) ==
  IF n = 0 THEN i
  ELSE LET rem == RustRem(i, n)
       IN IF rem = 0 THEN i ELSE i + (n - rem)

(* SymbolTableEntry predicates *)
is_common_block(ste) == ste.st_type = "U" /\ ste.st_value # 0
is_defined(ste) == ste.st_type = "D"

(* ------------------------- input modules ------------------------------ *)
Seg(n, l) == [segment_name |-> n, segment_len |-> l]
Ste(n, v, s, t) == [st_name |-> n, st_value |-> v, st_seg |-> s, st_type |-> t]
Rel(loc, seg, ref, ty) == [rel_loc |-> loc, rel_seg |-> seg, rel_ref |-> ref, rel_type |-> ty]
SegmentRef(i) == <<"SegmentRef", i>>
SymbolRef(i) == <<"SymbolRef", i>>
NoRef == <<"NoRef">>

(* A parsed module: the data of each segment has the segment's length *)
Mk(segs, syms, rels) ==
  [segments |-> segs, symbol_table |-> syms, relocations |-> rels,
   object_data |-> [i \in 1..Len(segs) |-> NewSegmentData(segs[i].segment_len)]]


(* ----------------- alloc_storage_and_symtables ------------------------ *)
ObjectOutNew == [nsegs |-> 0, segments |-> EmptyMap, object_data |-> EmptyMap,
                 relocations |-> <<>>]

LinkerInfoNew == [segment_mapping |-> EmptyMap, common_block_mapping |-> EmptyMap,
                  symbol_tables |-> EmptyMap, global_symtable |-> EmptyMap]

(* Defn::new: a definition coming from an object module, address not yet known *)
DefnNew(mod_id, ste_ix, addr) ==
  [defn_mod_id |-> mod_id, defn_ste_ix |-> Some(ste_ix), defn_addr |-> addr,
   defn_prov |-> "FromObjectIn"]

(* storage allocation for segment i of obj: the output segment and its data *)
AllocSegment(o, segment, data) ==
  LET name == segment.segment_name
      exists == Has(o.segments, name)
      seg_offset == IF exists THEN o.segments[name].segment_len ELSE 0
      out_seg == IF exists
                 THEN [o.segments[name] EXCEPT !.segment_len = seg_offset + segment.segment_len]
                 ELSE [segment_start |-> 0, segment_len |-> segment.segment_len]
      out_data == IF Has(o.object_data, name)
                  THEN Concat(o.object_data[name], data)
                  ELSE data
  IN [out |-> [o EXCEPT !.nsegs = IF exists THEN @ ELSE @ + 1,
                        !.segments = Insert(@, name, out_seg),
                        !.object_data = Insert(@, name, out_data)],
      seg_offset |-> seg_offset]

RECURSIVE AllocSegments(_, _, _, _)
AllocSegments(obj, i, o, seg_offsets) ==
  IF i > Len(obj.segments) THEN [out |-> o, seg_offsets |-> seg_offsets]
  ELSE LET a == AllocSegment(o, obj.segments[i], obj.object_data[i])
       IN AllocSegments(obj, i + 1, a.out,
                        Insert(seg_offsets, obj.segments[i].segment_name, a.seg_offset))

(* a registration that accepts a second definition of a name *)
AlreadyDefined_never(gst, symbol) == FALSE

(* "if symbol already defined in global table - error out" *)
AlreadyDefined(gst, symbol) ==
  /\ is_defined(symbol)
  /\ Has(gst, symbol.st_name)
  /\ IsSome(gst[symbol.st_name].defn)

(* the entry of the global symbol table after registering symbol i of obj_id *)
GlobalEntry(gst, symbol, obj_id, i) ==
  IF Has(gst, symbol.st_name)
  THEN IF is_defined(symbol)
       THEN [gst[symbol.st_name] EXCEPT !.defn = Some(DefnNew(obj_id, i, None))]
       ELSE [gst[symbol.st_name] EXCEPT !.refs = Insert(@, obj_id, i)]
  ELSE IF is_defined(symbol)
       THEN [defn |-> Some(DefnNew(obj_id, i, None)), refs |-> EmptyMap]
       ELSE [defn |-> None, refs |-> Insert(EmptyMap, obj_id, i)]

RECURSIVE GlobalSymtableUpdates(_, _, _, _)
GlobalSymtableUpdates(gst, obj, obj_id, i) ==
  IF i > Len(obj.symbol_table) THEN [gst |-> gst, err |-> None]
  ELSE LET symbol == obj.symbol_table[i]
       IN IF is_common_block(symbol)
          THEN GlobalSymtableUpdates(gst, obj, obj_id, i + 1)
          ELSE IF AlreadyDefined(gst, symbol)
          THEN [gst |-> gst, err |-> Some("MultipleSymbolDefinitions")]
          ELSE GlobalSymtableUpdates(
                 Insert(gst, symbol.st_name, GlobalEntry(gst, symbol, obj_id, i - 1)),
                 obj, obj_id, i + 1)

build_symbol_tables(inf, obj, obj_id) ==
  LET inf1 == [inf EXCEPT !.symbol_tables = Insert(@, obj_id, obj.symbol_table)]
      u == GlobalSymtableUpdates(inf1.global_symtable, obj, obj_id, 1)
  IN [info |-> [inf1 EXCEPT !.global_symtable = u.gst], err |-> u.err]

(* a size that follows the latest declaration *)
CommonBlockSize_last(size, st_value) == st_value

(* the size kept for a common block that is declared again *)
CommonBlockSize(size, st_value) == IF st_value > size THEN st_value ELSE size

RECURSIVE CommonBlocks(_, _, _)
CommonBlocks(cbm, syms, i) ==
  IF i > Len(syms) THEN cbm
  ELSE LET ste == syms[i]
       IN IF is_common_block(ste)
          THEN CommonBlocks(
                 Insert(cbm, ste.st_name,
                        IF Has(cbm, ste.st_name)
                        THEN CommonBlockSize(cbm[ste.st_name], ste.st_value)
                        ELSE ste.st_value),
                 syms, i + 1)
          ELSE CommonBlocks(cbm, syms, i + 1)

(* the GOT bytes a module asks for: one slot per GP4 relocation *)
GotSizeOf(obj) ==
  GotSlotSize * Cardinality({i \in 1..Len(obj.relocations) :
                               obj.relocations[i].rel_type = "GP4"})

alloc_storage_and_symtables(obj_id, obj, o, inf) ==
  LET a == AllocSegments(obj, 1, o, EmptyMap)
      b == build_symbol_tables(inf, obj, obj_id)
  IN IF IsSome(b.err)
     THEN [out |-> a.out, info |-> b.info, err |-> b.err, got_size |-> 0]
     ELSE [out |-> a.out,
           info |-> [b.info EXCEPT
                       !.segment_mapping = Insert(@, obj_id, a.seg_offsets),
                       !.common_block_mapping = CommonBlocks(@, obj.symbol_table, 1)],
           err |-> None,
           got_size |-> GotSizeOf(obj)]

(* --------------------- static_libs_symbol_lookup ---------------------- *)
(* names of the symbols of a pulled module that are not defined, in order *)
RECURSIVE UndefinedNames(_, _)
UndefinedNames(syms, i) ==
  IF i > Len(syms) THEN <<>>
  ELSE (IF ~is_defined(syms[i]) THEN <<syms[i].st_name>> ELSE <<>>)
       \o UndefinedNames(syms, i + 1)

(* id of a module of a library file: format!("{libname}_mod_{obj_offset}") *)
FileLibObjId(libname, obj_offset) == libname \o "_mod_" \o ToString(obj_offset)

(* GOT bytes added to the session's tally by a pulled library module: the *)
(* value returned by alloc_storage_and_symtables is dropped by the caller *)
LibGotSize(returned) == 0

(* A library object is allocated, registered and recorded as visited.     *)
(* st = [out, info, session, undef, visited, got, ingested, pulled, err]  *)
(* pulled lists the ids handed to alloc_storage_and_symtables             *)
IngestLibObject(st, id, obj) ==
  LET r == alloc_storage_and_symtables(id, obj, st.out, st.info)
  IN IF IsSome(r.err)
     THEN [st EXCEPT !.out = r.out, !.info = r.info, !.err = r.err,
                     !.pulled = Append(@, id)]
     ELSE [st EXCEPT !.out = r.out, !.info = r.info,
                     !.session = Insert(@, id, obj),
                     !.undef = @ \o UndefinedNames(obj.symbol_table, 1),
                     !.visited = @ \cup {id},
                     !.got = @ + LibGotSize(r.got_size),
                     !.ingested = Append(@, id),
                     !.pulled = Append(@, id)]

(* DirLib arm: the first not yet visited object whose MAP entry lists the *)
(* name is ingested (when its file exists) and the library scan stops     *)
DirLibLookup(lib, undef_sym, st) ==
  LET cands == {n \in DOMAIN lib.symbols :
                  n \notin st.visited /\ undef_sym \in lib.symbols[n]}
  IN IF cands = {} THEN [st |-> st, brk |-> FALSE]
     ELSE LET n == SortBy(IdOrder, cands)[1]
          IN [st |-> IF Has(lib.objects, n)
                     THEN IngestLibObject(st, n, lib.objects[n])
                     ELSE st,
              brk |-> TRUE]

(* a FileLib arm that does not consult the visited set *)
FileLibLookup_revisit(lib, undef_sym, st) ==
  IF Has(lib.symbols, undef_sym)
  THEN LET obj_offset == lib.symbols[undef_sym]
           libobj_id == FileLibObjId(lib.libname, obj_offset)
       IN IF obj_offset + 1 \in 1..Len(lib.objects)
          THEN IngestLibObject(st, libobj_id, lib.objects[obj_offset + 1])
          ELSE st
  ELSE st

(* FileLib arm: the module the symbol directory gives for the name is     *)
(* ingested unless already visited; the scan goes on with the next library*)
FileLibLookup(lib, undef_sym, st) ==
  IF Has(lib.symbols, undef_sym)
  THEN LET obj_offset == lib.symbols[undef_sym]
           libobj_id == FileLibObjId(lib.libname, obj_offset)
       IN IF obj_offset + 1 \in 1..Len(lib.objects) /\ libobj_id \notin st.visited
          THEN IngestLibObject(st, libobj_id, lib.objects[obj_offset + 1])
          ELSE st
  ELSE st

(* format!("{}_{membername}", stublib.libname) *)
StubObjId(libname, membername) == libname \o "_" \o membername

(* Stub arm: the members not yet visited are gone through; for a member  *)
(* that exports the name nothing is recorded (the call that would add the *)
(* definition is commented out) and nothing is marked visited             *)
RECURSIVE StubLookup(_, _, _, _)
StubLookup(lib, members, undef_sym, st) ==
  IF members = <<>> THEN st
  ELSE LET stub == lib.members[Head(members)]
           libobj_id == StubObjId(lib.libname, Head(members))
       IN IF libobj_id \in st.visited
          THEN StubLookup(lib, Tail(members), undef_sym, st)
          ELSE IF Has(stub.syms, undef_sym)
               THEN StubLookup(lib, Tail(members), undef_sym, st)
               ELSE StubLookup(lib, Tail(members), undef_sym, st)

RECURSIVE ScanLibs(_, _, _, _)
ScanLibs(libs, k, undef_sym, st) ==
  IF k > Len(libs) \/ IsSome(st.err) THEN st
  ELSE IF libs[k].kind = "DirLib"
       THEN LET d == DirLibLookup(libs[k], undef_sym, st)
            IN IF d.brk THEN d.st ELSE ScanLibs(libs, k + 1, undef_sym, d.st)
       ELSE IF libs[k].kind = "FileLib"
            THEN ScanLibs(libs, k + 1, undef_sym, FileLibLookup(libs[k], undef_sym, st))
            ELSE ScanLibs(libs, k + 1, undef_sym,
                          StubLookup(libs[k], SortBy(MemberOrder, DOMAIN libs[k].members),
                                     undef_sym, st))

(* ------------------------ patch_segment_offsets ----------------------- *)
SegEnd(o, name) == o.segments[name].segment_start + o.segments[name].segment_len

(* recorded offsets that stay relative to the segment *)
PatchMapping_none(sm, name, start) == sm

(* every module's recorded offset of a segment is moved by the segment start *)
PatchMapping(sm, name, start) ==
  [m \in DOMAIN sm |->
     [s \in DOMAIN sm[m] |-> IF s = name THEN sm[m][s] + start ELSE sm[m][s]]]

SetStart(o, name, start) ==
  IF Has(o.segments, name)
  THEN [o EXCEPT !.segments[name].segment_start = start]
  ELSE o

patch_text_seg(o, inf, text_start_) ==
  [out |-> SetStart(o, TEXT, text_start_),
   info |-> [inf EXCEPT !.segment_mapping = PatchMapping(@, TEXT, text_start_)]]

(* header count of the output after the GOT segment was added *)
NsegsAfterGot(nsegs) == nsegs

(* alloc_got; unwraps the .text segment *)
alloc_got(o, got_size_) ==
  IF ~Has(o.segments, TEXT) THEN [out |-> o, panic |-> TRUE]
  ELSE [out |-> [o EXCEPT
                   !.nsegs = NsegsAfterGot(@),
                   !.segments = Insert(@, GOT, [segment_start |-> SegEnd(o, TEXT),
                                                segment_len |-> got_size_]),
                   !.object_data = Insert(@, GOT, NewSegmentData(got_size_))],
        panic |-> FALSE]

(* the segment .data is placed after *)
LastCodeSeg(o) == IF Has(o.segments, GOT) THEN GOT ELSE TEXT

(* patch_data_seg; unwraps the last code segment *)
patch_data_seg(o, inf, boundary) ==
  IF ~Has(o.segments, LastCodeSeg(o)) THEN [out |-> o, info |-> inf, panic |-> TRUE]
  ELSE LET data_start == find_seg_start(SegEnd(o, LastCodeSeg(o)), boundary)
       IN [out |-> SetStart(o, DATA, data_start),
           info |-> [inf EXCEPT !.segment_mapping = PatchMapping(@, DATA, data_start)],
           panic |-> FALSE]

(* patch_bss_seg; unwraps the .data segment *)
patch_bss_seg(o, inf, boundary) ==
  IF ~Has(o.segments, DATA)
  THEN [out |-> o, info |-> inf, bss_start |-> 0, panic |-> TRUE]
  ELSE LET bss_start_ == find_seg_start(SegEnd(o, DATA), boundary)
       IN [out |-> SetStart(o, BSS, bss_start_),
           info |-> [inf EXCEPT !.segment_mapping = PatchMapping(@, BSS, bss_start_)],
           bss_start |-> bss_start_,
           panic |-> FALSE]

(* whether a GOT segment is allocated *)
GotRequired(got_size_) == got_size_ # 0

patch_segment_offsets(o, inf, got_size_, text_start_, data_boundary, bss_boundary) ==
  LET t == patch_text_seg(o, inf, text_start_)
      g == IF GotRequired(got_size_) THEN alloc_got(t.out, got_size_)
           ELSE [out |-> t.out, panic |-> FALSE]
      d == patch_data_seg(g.out, t.info, data_boundary)
      b == patch_bss_seg(d.out, d.info, bss_boundary)
  IN IF g.panic \/ d.panic \/ b.panic
     THEN [out |-> o, info |-> inf, bss_start |-> 0, panic |-> TRUE]
     ELSE b

(* ----------------------- common_block_allocation ---------------------- *)
CommonBlockTotal(inf) ==
  SumOver(inf.common_block_mapping, DOMAIN inf.common_block_mapping)

common_block_allocation(o, inf, bss_start_) ==
  LET common_block == CommonBlockTotal(inf)
  IN IF common_block # 0
     THEN IF Has(o.segments, BSS)
          THEN [o EXCEPT !.segments[BSS].segment_len = @ + common_block]
          ELSE [o EXCEPT !.segments = Insert(@, BSS, [segment_start |-> bss_start_,
                                                      segment_len |-> common_block]),
                         !.nsegs = @ + 1]
     ELSE o

(* the check for undefined symbols of do_link *)
AnyUndefined(inf) ==
  \E n \in DOMAIN inf.global_symtable : IsNone(inf.global_symtable[n].defn)

(* --------------------- resolve_global_sym_offsets --------------------- *)
(* the symbol table entry a definition points to *)
DefnSte(inf, defn) ==
  inf.symbol_tables[defn.defn_mod_id][Unwrap(defn.defn_ste_ix) + 1]

(* a definition without an object symbol, or one relative to segment 0,   *)
(* stops the process                                                       *)
DefnPanics(inf, entry) ==
  \/ IsNone(entry.defn)
  \/ IsNone(Unwrap(entry.defn).defn_ste_ix)
  \/ ~(DefnSte(inf, Unwrap(entry.defn)).st_seg > 0)

(* an address that leaves out the symbol value *)
ResolvedAddr_novalue(inf, session, defn) ==
  inf.segment_mapping[defn.defn_mod_id][
    session[defn.defn_mod_id].segments[DefnSte(inf, defn).st_seg].segment_name]

(* the address of a definition: offset of its segment in the defining     *)
(* module plus the symbol value                                            *)
ResolvedAddr(inf, session, defn) ==
  LET ste == DefnSte(inf, defn)
      sym_seg == session[defn.defn_mod_id].segments[ste.st_seg].segment_name
  IN inf.segment_mapping[defn.defn_mod_id][sym_seg] + ste.st_value

resolve_global_sym_offsets(inf, session) ==
  LET gst == inf.global_symtable
  IN IF \E n \in DOMAIN gst : DefnPanics(inf, gst[n])
     THEN [info |-> inf, panic |-> TRUE]
     ELSE [info |-> [inf EXCEPT !.global_symtable =
                       [n \in DOMAIN gst |->
                          [gst[n] EXCEPT !.defn =
                             Some([Unwrap(gst[n].defn) EXCEPT !.defn_addr =
                                     Some(ResolvedAddr(inf, session, Unwrap(gst[n].defn)))])]]],
           panic |-> FALSE]

(* --------------------------- hex/address codec ------------------------ *)
(* Numbers wider than 31 bits are kept as 16-bit limbs, least significant *)
(* first, so that every intermediate value stays within 32 bits.          *)
Limb == 65536

(* the two low limbs of the two's complement form of an i32 *)
LowLimb(i) == i % Limb
HighLimb(i) == ((i - LowLimb(i)) \div Limb) % Limb

(* the cast "as usize" of an i32 on a 64-bit target: sign extension *)
AsUsize(i) ==
  <<LowLimb(i), HighLimb(i), IF i < 0 THEN Limb - 1 ELSE 0, IF i < 0 THEN Limb - 1 ELSE 0>>

BytesOfLimbs(lo, hi) == <<hi \div 256, hi % 256, lo \div 256, lo % 256>>

(* mk_addr_4: no value when the usize exceeds 0xFFFFFFFF *)
mk_addr_4(u) ==
  IF u[3] # 0 \/ u[4] # 0 THEN None ELSE Some(BytesOfLimbs(u[1], u[2]))

(* mk_i_4: "{:08X}" of an i32 prints its two's complement form *)
mk_i_4(i) == BytesOfLimbs(LowLimb(i), HighLimb(i))

(* the value of a two's complement form given by its two limbs *)
OfLimbs(lo, hi) == (IF hi >= Limb \div 2 THEN hi - Limb ELSE hi) * Limb + lo

(* x_to_i4: the i64 parsed from the eight hex digits, cast to i32 *)
x_to_i4(bytes) ==
  IF Len(bytes) # 4 THEN None
  ELSE LET hi == bytes[1] * 256 + bytes[2]
           lo == bytes[3] * 256 + bytes[4]
       IN Some(OfLimbs(lo, hi))

(* a + b on i32: the wrapped sum and whether the exact sum left the type; *)
(* a build with overflow checks stops the process there, a build without  *)
(* them goes on with the wrapped sum                                      *)
I32Add(a, b) ==
  LET lo == LowLimb(a) + LowLimb(b)
      hi == (HighLimb(a) + HighLimb(b) + lo \div Limb) % Limb
      value == OfLimbs(lo % Limb, hi)
  IN [value |-> value,
      overflow |-> (a >= 0 /\ b >= 0 /\ value < 0) \/ (a < 0 /\ b < 0 /\ value >= 0)]

(* SegmentData::update stops the process when the range leaves the buffer; *)
(* a negative i32 offset cast to usize always does                         *)
UpdatePanics(sd, start, len) == start < 0 \/ start + len > Len(sd)
Update(sd, start, len, patch) ==
  SubSeq(sd, 1, start) \o patch \o SubSeq(sd, start + len + 1, Len(sd))

(* SegmentData::get_at *)
GetAt(sd, start, len) ==
  IF start < 0 \/ start + len > Len(sd) THEN None
  ELSE Some(SubSeq(sd, start + 1, start + len))

(* --------------------------- run_relocations -------------------------- *)
RelOk(o, g) == [out |-> o, got_offset |-> g, status |-> "ok"]
RelFail(o, g, why) == [out |-> o, got_offset |-> g, status |-> why]

ModOff(inf, modname, seg) == inf.segment_mapping[modname][seg]

(* loc_off: the offset of the relocated bytes inside the output segment *)
LocOff(o, inf, modname, r) ==
  ModOff(inf, modname, r.rel_seg) + r.rel_loc - o.segments[r.rel_seg].segment_start

(* object_data.entry(seg).and_modify(|sd| sd.update(start, len, patch)) *)
WriteAt(o, seg, start, len, patch, g) ==
  IF ~Has(o.object_data, seg) THEN RelOk(o, g)
  ELSE IF UpdatePanics(o.object_data[seg], start, len) THEN RelFail(o, g, "panic")
  ELSE RelOk([o EXCEPT !.object_data[seg] = Update(@, start, len, patch)], g)

(* x_to_i4(object_data.get(seg).unwrap().get_at(start, 4).unwrap()) *)
ReadAt(o, seg, start) ==
  IF ~Has(o.object_data, seg) THEN None
  ELSE LET b == GetAt(o.object_data[seg], start, 4)
       IN IF IsNone(b) THEN None ELSE x_to_i4(Unwrap(b))

(* global_symtable.get(name).unwrap().0.as_ref().unwrap().defn_addr.unwrap() *)
SymAddr(inf, mod_obj, sym_i) ==
  LET name == mod_obj.symbol_table[sym_i + 1].st_name
      gst == inf.global_symtable
  IN IF ~Has(gst, name) THEN None
     ELSE IF IsNone(gst[name].defn) THEN None
     ELSE Unwrap(gst[name].defn).defn_addr

PushER4(res, loc, seg) ==
  IF res.status # "ok" THEN res
  ELSE [res EXCEPT !.out.relocations = Append(@, Rel(loc, seg, NoRef, "ER4"))]

TargetSeg(mod_obj, r) == mod_obj.segments[r.rel_ref[2] + 1].segment_name

(* A4: the offset the patch is written at *)
A4PatchOff(o, inf, modname, r) ==
  (o.segments[r.rel_seg].segment_start - ModOff(inf, modname, r.rel_seg)) + r.rel_loc

RelA4(o, inf, modname, mod_obj, r, g) ==
  LET mod_seg_off == ModOff(inf, modname, TargetSeg(mod_obj, r))
      saa == mk_addr_4(AsUsize(mod_seg_off))
  IN IF IsNone(saa) THEN RelFail(o, g, "AddressOverflowError")
     ELSE PushER4(WriteAt(o, r.rel_seg, A4PatchOff(o, inf, modname, r), 4, Unwrap(saa), g),
                  LocOff(o, inf, modname, r), r.rel_seg)

RelR4(o, inf, modname, mod_obj, r, g, checks) ==
  LET mod_seg_off == ModOff(inf, modname, TargetSeg(mod_obj, r))
      next_insr_loc == ModOff(inf, modname, r.rel_seg) + r.rel_loc + 4
      loc_off == next_insr_loc - 4 - o.segments[r.rel_seg].segment_start
      addend == ReadAt(o, r.rel_seg, loc_off)
  IN IF ~Has(o.object_data, r.rel_seg) THEN RelOk(o, g)
     ELSE IF IsNone(addend) THEN RelFail(o, g, "panic")
     ELSE LET sum == I32Add(next_insr_loc - mod_seg_off, Unwrap(addend))
          IN IF sum.overflow /\ checks THEN RelFail(o, g, "panic")
             ELSE WriteAt(o, r.rel_seg, loc_off, 4, mk_i_4(sum.value), g)

RelAS4(o, inf, modname, mod_obj, r, g, checks) ==
  LET mod_sym_off == SymAddr(inf, mod_obj, r.rel_ref[2])
      loc_off == LocOff(o, inf, modname, r)
      addend == ReadAt(o, r.rel_seg, loc_off)
  IN IF IsNone(mod_sym_off) \/ IsNone(addend) THEN RelFail(o, g, "panic")
     ELSE LET sum == I32Add(Unwrap(mod_sym_off), Unwrap(addend))
              v == mk_addr_4(AsUsize(sum.value))
          IN IF sum.overflow /\ checks THEN RelFail(o, g, "panic")
             ELSE IF IsNone(v) THEN RelFail(o, g, "AddressOverflowError")
             ELSE PushER4(WriteAt(o, r.rel_seg, loc_off, 4, Unwrap(v), g),
                          loc_off, r.rel_seg)

RelRS4(o, inf, modname, mod_obj, r, g, checks) ==
  LET mod_sym_off == SymAddr(inf, mod_obj, r.rel_ref[2])
      loc_addr == ModOff(inf, modname, r.rel_seg)
      loc_off == LocOff(o, inf, modname, r)
      addend == ReadAt(o, r.rel_seg, loc_off)
  IN IF IsNone(mod_sym_off) \/ IsNone(addend) THEN RelFail(o, g, "panic")
     ELSE LET sum == I32Add(loc_addr + 4 - Unwrap(mod_sym_off), Unwrap(addend))
          IN IF sum.overflow /\ checks THEN RelFail(o, g, "panic")
             ELSE WriteAt(o, r.rel_seg, loc_off, 4, mk_i_4(sum.value), g)

(* U2 writes bytes [0..2) and L2 bytes [2..4) of the symbol address *)
RelHalf(o, inf, modname, mod_obj, r, g, from) ==
  LET mod_sym_off == SymAddr(inf, mod_obj, r.rel_ref[2])
  IN IF IsNone(mod_sym_off) THEN RelFail(o, g, "panic")
     ELSE LET v == mk_addr_4(AsUsize(Unwrap(mod_sym_off)))
          IN IF IsNone(v) THEN RelFail(o, g, "AddressOverflowError")
             ELSE WriteAt(o, r.rel_seg, LocOff(o, inf, modname, r), 2,
                          SubSeq(Unwrap(v), from + 1, from + 2), g)

RelGA4(o, inf, modname, mod_obj, r, g) ==
  LET seg_addr == ModOff(inf, modname, r.rel_seg)
  IN IF ~Has(o.segments, GOT) THEN RelFail(o, g, "panic")
     ELSE LET dist_to_got == o.segments[GOT].segment_start - (seg_addr + r.rel_loc)
              v == mk_addr_4(AsUsize(dist_to_got))
          IN IF IsNone(v) THEN RelFail(o, g, "AddressOverflowError")
             ELSE WriteAt(o, r.rel_seg, LocOff(o, inf, modname, r), 4, Unwrap(v), g)

RelGP4(o, inf, modname, mod_obj, r, g) ==
  LET mod_sym_off == SymAddr(inf, mod_obj, r.rel_ref[2])
  IN IF IsNone(mod_sym_off) THEN RelFail(o, g, "panic")
     ELSE LET v == mk_addr_4(AsUsize(Unwrap(mod_sym_off)))
          IN IF IsNone(v) THEN RelFail(o, g, "AddressOverflowError")
             ELSE LET w == WriteAt(o, GOT, g, GotSlotSize, Unwrap(v), g)
                      slot == mk_addr_4(AsUsize(g))
                  IN IF w.status # "ok" THEN w
                     ELSE IF IsNone(slot) THEN RelFail(w.out, g, "AddressOverflowError")
                     ELSE [WriteAt(w.out, r.rel_seg, LocOff(o, inf, modname, r),
                                   GotSlotSize, Unwrap(slot), g)
                             EXCEPT !.got_offset = g + GotSlotSize]

RelGR4(o, inf, modname, mod_obj, r, g, checks) ==
  LET loc_off == LocOff(o, inf, modname, r)
      addr_off == ReadAt(o, r.rel_seg, loc_off)
      seg_ref_addr == ModOff(inf, modname, TargetSeg(mod_obj, r))
  IN IF IsNone(addr_off) \/ ~Has(o.segments, GOT) THEN RelFail(o, g, "panic")
     ELSE LET sum == I32Add(seg_ref_addr, Unwrap(addr_off))
              diff == I32Add(sum.value, -o.segments[GOT].segment_start)
          IN IF (sum.overflow \/ diff.overflow) /\ checks THEN RelFail(o, g, "panic")
             ELSE WriteAt(o, r.rel_seg, loc_off, 4, mk_i_4(diff.value), g)

RelER4(o, inf, modname, mod_obj, r, g, text_start_, checks) ==
  LET loc_off == LocOff(o, inf, modname, r)
      addr == ReadAt(o, r.rel_seg, loc_off)
  IN IF IsNone(addr) THEN RelFail(o, g, "panic")
     ELSE LET sum == I32Add(Unwrap(addr), text_start_)
              v == mk_addr_4(AsUsize(sum.value))
          IN IF sum.overflow /\ checks THEN RelFail(o, g, "panic")
             ELSE IF IsNone(v) THEN RelFail(o, g, "AddressOverflowError")
             ELSE WriteAt(o, r.rel_seg, loc_off, 4, Unwrap(v), g)

(* one iteration of the relocation loop of run_relocations *)
(* info.segment_mapping.get(modname).unwrap() panics for a module of the  *)
(* session that this link did not register                                *)
ApplyRelocation(o, inf, modname, mod_obj, r, g, text_start_, checks) ==
  IF ~Has(inf.segment_mapping, modname) THEN RelFail(o, g, "panic")
  ELSE
  CASE r.rel_type = "A4" -> RelA4(o, inf, modname, mod_obj, r, g)
    [] r.rel_type = "R4" -> RelR4(o, inf, modname, mod_obj, r, g, checks)
    [] r.rel_type = "AS4" -> RelAS4(o, inf, modname, mod_obj, r, g, checks)
    [] r.rel_type = "RS4" -> RelRS4(o, inf, modname, mod_obj, r, g, checks)
    [] r.rel_type = "U2" -> RelHalf(o, inf, modname, mod_obj, r, g, 0)
    [] r.rel_type = "L2" -> RelHalf(o, inf, modname, mod_obj, r, g, 2)
    [] r.rel_type = "GA4" -> RelGA4(o, inf, modname, mod_obj, r, g)
    [] r.rel_type = "GP4" -> RelGP4(o, inf, modname, mod_obj, r, g)
    [] r.rel_type = "GR4" -> RelGR4(o, inf, modname, mod_obj, r, g, checks)
    [] r.rel_type = "ER4" -> RelER4(o, inf, modname, mod_obj, r, g, text_start_, checks)

(* the relocations of the session in the order run_relocations visits     *)
(* them: session_objects is a BTreeMap, iterated in the order of the ids  *)
RECURSIVE RelsOf(_, _, _)
RelsOf(modname, rels, i) ==
  IF i > Len(rels) THEN <<>>
  ELSE <<[modname |-> modname, r |-> rels[i]]>> \o RelsOf(modname, rels, i + 1)

RECURSIVE RelocationsInOrder(_, _)
RelocationsInOrder(session, ids) ==
  IF ids = <<>> THEN <<>>
  ELSE RelsOf(ids[1], session[ids[1]].relocations, 1)
       \o RelocationsInOrder(session, Tail(ids))

(* ----------------------------- wrap_routines -------------------------- *)
(* Deref: the string inside a symbol name of either kind *)
Deref(n) ==
  IF \E x \in {PlainOrder[i] : i \in 1..Len(PlainOrder)} : n = WrappedSName(x)
  THEN CHOOSE x \in {PlainOrder[i] : i \in 1..Len(PlainOrder)} : n = WrappedSName(x)
  ELSE n

(* starts_with("wrap_") || starts_with("real_"), and the rest [5..] *)
HasWrapPrefix(str) ==
  \E x \in {PlainOrder[i] : i \in 1..Len(PlainOrder)} :
    str = "wrap_" \o x \/ str = "real_" \o x
StripPrefix(str) ==
  CHOOSE x \in {PlainOrder[i] : i \in 1..Len(PlainOrder)} :
    str = "wrap_" \o x \/ str = "real_" \o x

(* the test that stops the wrapping at a symbol *)
AlreadyWrapped(already_wrapped, st_name) ==
  /\ HasWrapPrefix(Deref(st_name))
  /\ WrappedSName(StripPrefix(Deref(st_name))) \in already_wrapped

(* routine_names.contains(&sym.st_name) *)
IsRoutine(routine_names_, st_name) ==
  \E i \in 1..Len(routine_names_) : routine_names_[i] = st_name

(* the symbols of one module, from symbol i on; w = [syms, already, err] *)
RECURSIVE WrapSymbols(_, _, _)
WrapSymbols(w, i, routine_names_) ==
  IF i > Len(w.syms) THEN w
  ELSE IF AlreadyWrapped(w.already, w.syms[i].st_name)
  THEN [w EXCEPT !.err = Some("WrappedSymbolNameAlreadyExists")]
  ELSE IF IsRoutine(routine_names_, w.syms[i].st_name)
  THEN WrapSymbols([w EXCEPT !.syms[i].st_name = WrappedSName(Deref(@)),
                             !.already = @ \cup {WrappedSName(Deref(w.syms[i].st_name))}],
                   i + 1, routine_names_)
  ELSE WrapSymbols(w, i + 1, routine_names_)

(* the modules in the order of their ids; st = [objs, already, err] *)
RECURSIVE WrapModules(_, _, _)
WrapModules(st, ids, routine_names_) ==
  IF ids = <<>> \/ IsSome(st.err) THEN st
  ELSE LET w == WrapSymbols([syms |-> st.objs[ids[1]].symbol_table,
                             already |-> st.already, err |-> None],
                            1, routine_names_)
       IN WrapModules([objs |-> [st.objs EXCEPT ![ids[1]].symbol_table = w.syms],
                       already |-> w.already, err |-> w.err],
                      Tail(ids), routine_names_)

wrap_routines(objs, routine_names_) ==
  WrapModules([objs |-> objs, already |-> {}, err |-> None],
              SortBy(IdOrder, DOMAIN objs), routine_names_)

(* ------------------------------ inputs -------------------------------- *)
SegLens == {0, MaxSegLen}
SegOrders == {<<TEXT, DATA, BSS>>, <<DATA, TEXT>>, <<TEXT>>}
Lay(order, l) == [i \in 1..Len(order) |-> Seg(order[i], l)]
Layouts == {Lay(order, l) : order \in SegOrders, l \in SegLens}
BaseLayout == Lay(<<TEXT, DATA, BSS>>, MaxSegLen)

Undef(n) == Ste(n, 0, 0, "U")
Common(n, size) == Ste(n, size, 0, "U")
Def(n, v, s) == Ste(n, v, s, "D")

(* symbol tables of a module with nsegs segments (st_seg <= nsegs) *)
SymTabs(nsegs) ==
  {<<>>, <<Undef("foo")>>, <<Def("bar", 0, 1)>>, <<Common("bar", 1)>>,
   <<Undef("bar"), Def("foo", MaxSymValue, nsegs)>>,
   <<Common("bar", MaxCommonSize), Common("foo", 1)>>}
  \cup {<<Def("foo", v, sg)>> : v \in {0, MaxSymValue}, sg \in {0, 1, nsegs}}
  \cup {<<Common("foo", c)>> : c \in {1, MaxCommonSize}}

RelTypes == {"A4", "R4", "AS4", "RS4", "U2", "L2", "GA4", "GP4", "GR4", "ER4"}

(* the target the parser gives a relocation of a kind whose ref field is 1 *)
RefOf(ty) == IF ty \in {"A4", "R4", "GR4"} THEN SegmentRef(0)
             ELSE IF ty \in {"GA4", "ER4"} THEN NoRef
             ELSE SymbolRef(0)

RelTabs ==
  {<<Rel(0, TEXT, RefOf(ty), ty)>> : ty \in RelTypes}
  \cup {<<Rel(MaxSegLen, TEXT, RefOf("R4"), "R4")>>,
        <<Rel(0, DATA, RefOf("GA4"), "GA4")>>,
        <<Rel(0, TEXT, RefOf("GP4"), "GP4"), Rel(0, DATA, RefOf("GP4"), "GP4")>>,
        <<Rel(0, TEXT, RefOf("GP4"), "GP4"), Rel(0, TEXT, RefOf("GA4"), "GA4")>>,
        <<Rel(0, TEXT, RefOf("GP4"), "GP4"), Rel(0, DATA, RefOf("GR4"), "GR4")>>}

Catalog ==
  {Mk(l, st, <<>>) : l \in Layouts, st \in UNION {SymTabs(n) : n \in 1..3}}
  \cup {Mk(BaseLayout, st, rt) :
          st \in {<<Undef("foo")>>, <<Def("foo", MaxSymValue, 2)>>, <<Common("foo", 1)>>},
          rt \in RelTabs}

(* the modules the parser accepts among them: st_seg <= nsegs *)
ParserAccepts(m) ==
  \A i \in 1..Len(m.symbol_table) : m.symbol_table[i].st_seg <= Len(m.segments)

FirstModules == {m \in Catalog : ParserAccepts(m)}

SecondModules ==
  {Mk(l, st, <<>>) :
     l \in {BaseLayout, Lay(<<TEXT, DATA, BSS>>, 0), Lay(<<DATA, TEXT>>, MaxSegLen)},
     st \in {<<>>, <<Def("foo", 0, 1)>>, <<Common("foo", MaxCommonSize - 1)>>}}
  \cup {Mk(BaseLayout, <<Def("foo", 0, 1)>>, <<Rel(0, TEXT, RefOf("GP4"), "GP4")>>),
        Mk(BaseLayout, <<Def("bar", MaxSymValue, 3)>>, <<Rel(0, TEXT, RefOf("A4"), "A4")>>)}

(* a module whose first segment holds the given bytes at its start *)
WithBytes(m, bytes) ==
  [m EXCEPT !.object_data[1] = bytes \o SubSeq(@, Len(bytes) + 1, Len(@))]

(* modules whose relocated bytes hold an addend *)
Addends == {<<127, 255, 255, 255>>, <<255, 255, 255, 255>>, <<0, 0, 0, 1>>}
AddendModules ==
  {WithBytes(Mk(BaseLayout, <<Def("foo", MaxSymValue, 2)>>, <<Rel(0, TEXT, RefOf(ty), ty)>>), b) :
     ty \in {"AS4", "ER4", "R4", "RS4", "A4"}, b \in Addends}
  \cup {WithBytes(Mk(BaseLayout, <<Def("foo", MaxSymValue, 2)>>,
                     <<Rel(0, DATA, RefOf("GP4"), "GP4"), Rel(0, TEXT, RefOf("GR4"), "GR4")>>), b) :
          b \in Addends}

(* modules with a relative relocation away from the start of a segment *)
FarLayout == Lay(<<TEXT, DATA, BSS>>, 2 * MaxSegLen)
FarRelModules ==
  {Mk(FarLayout, <<Def("foo", MaxSymValue, 2)>>, <<Rel(loc, TEXT, RefOf(ty), ty)>>) :
     ty \in {"R4", "RS4"}, loc \in {0, MaxSegLen}}

(* input modules of the sessions that wrap the routine foo *)
WrapSymTabs ==
  {<<Def("foo", 0, 1)>>, <<Undef("foo")>>, <<Def("wrap_foo", 0, 1)>>,
   <<Def("foo", 0, 1), Def("wrap_foo", 0, 1)>>, <<Def("wrap_foo", 0, 1), Def("foo", 0, 1)>>,
   <<Def("real_foo", 0, 1), Undef("foo")>>, <<Undef("foo"), Def("real_foo", 0, 1)>>,
   <<Def("bar", 0, 1), Undef("foo")>>, <<Def("foo", 0, 1), Undef("bar")>>}
WrapInputs == {Mk(BaseLayout, st, <<>>) : st \in WrapSymTabs}
RoutineLists == {<<"foo">>, <<"bar">>, <<"foo", "bar">>}

(* modules kept in libraries *)
LibModules ==
  {Mk(BaseLayout, <<Def("foo", 0, 1)>>, <<>>),
   Mk(BaseLayout, <<Def("foo", MaxSymValue, 2), Undef("bar")>>, <<>>),
   Mk(BaseLayout, <<Def("bar", 0, 1), Undef("foo")>>, <<>>),
   Mk(BaseLayout, <<Def("bar", 0, 3)>>, <<Rel(0, TEXT, RefOf("GP4"), "GP4")>>),
   Mk(BaseLayout, <<Def("bar", 0, 1), Def("foo", 0, 1)>>, <<>>),
   Mk(Lay(<<DATA, TEXT>>, MaxSegLen), <<Def("foo", 0, 2), Common("bar", MaxCommonSize)>>, <<>>)}

(* input modules of the sessions that are linked against libraries *)
LibClients ==
  {Mk(BaseLayout, <<Undef("foo")>>, <<>>),
   Mk(BaseLayout, <<Undef("bar"), Undef("foo")>>, <<>>),
   Mk(BaseLayout, <<Undef("foo")>>, <<Rel(0, TEXT, RefOf("GP4"), "GP4")>>),
   Mk(BaseLayout, <<Def("foo", 0, 1), Undef("bar")>>, <<>>),
   Mk(Lay(<<DATA, TEXT>>, MaxSegLen), <<Undef("bar")>>, <<>>)}

DefinedNames(m) ==
  {m.symbol_table[i].st_name : i \in {j \in 1..Len(m.symbol_table) :
                                        is_defined(m.symbol_table[j])}}

(* a library directory as the librarian writes it and parse_dir_lib reads *)
(* it: the MAP entry of an object lists its defined symbols               *)
DirLib(libname, objs) ==
  [kind |-> "DirLib", libname |-> libname,
   symbols |-> [n \in DOMAIN objs |-> DefinedNames(objs[n])],
   objects |-> objs]

(* a library file as parse_file_lib reads it: a later module replaces the *)
(* directory entry of a name defined by an earlier one                    *)
FileLib(libname, objs) ==
  [kind |-> "FileLib", libname |-> libname,
   symbols |-> [n \in UNION {DefinedNames(objs[i]) : i \in 1..Len(objs)} |->
                  (CHOOSE i \in 1..Len(objs) :
                     /\ n \in DefinedNames(objs[i])
                     /\ \A j \in 1..Len(objs) : n \in DefinedNames(objs[j]) => j <= i) - 1],
   objects |-> objs]

(* Either<Address, LibName>, the value a stub member gives a name *)
Left(addr) == <<"Left", addr>>
Right(libname) == <<"Right", libname>>

(* StubMember and StubLib *)
StubMember(name, syms) == [name |-> name, syms |-> syms]
StubLib(libname, members) == [kind |-> "Stub", libname |-> libname, members |-> members]

(* stub libraries whose member exports foo with an absolute address *)
StubLibLists ==
  {<<StubLib("slib", "member_1" :> StubMember("member_1", "foo" :> Left(a)))>> :
     a \in {0, MaxSymValue}}
  \cup {<<StubLib("slib", ("member_1" :> StubMember("member_1", "bar" :> Right("slib_2")))
                            @@ ("member_2" :> StubMember("member_2", "foo" :> Left(MaxSymValue)))),
           DirLib("dlib", "libmod_1" :> Mk(BaseLayout, <<Def("bar", 0, 1)>>, <<>>))>>}

OneLib ==
  {DirLib("dlib", "libmod_1" :> m) : m \in LibModules}
  \cup {DirLib("dlib", ("libmod_1" :> m1) @@ ("libmod_2" :> m2)) :
          m1 \in LibModules, m2 \in LibModules}
  \cup {FileLib("flib", <<m>>) : m \in LibModules}
  \cup {FileLib("flib", <<m1, m2>>) : m1 \in LibModules, m2 \in LibModules}

LibLists ==
  {<<l>> : l \in OneLib}
  \cup {<<DirLib("dlib", "libmod_1" :> m1), DirLib("dlib_2", "libmod_1" :> m2)>> :
          m1 \in LibModules, m2 \in LibModules}
  \cup {<<DirLib("dlib", "libmod_1" :> m1), DirLib("dlib_2", "libmod_2" :> m2)>> :
          m1 \in LibModules, m2 \in LibModules}
  \cup {<<DirLib("dlib", "libmod_1" :> m1), FileLib("flib", <<m2>>)>> :
          m1 \in LibModules, m2 \in LibModules}
  \cup {<<FileLib("flib", <<m1>>), DirLib("dlib", "libmod_1" :> m2)>> :
          m1 \in LibModules, m2 \in LibModules}

(* a client and a library module that both carry a relocation *)
RelocClient == Mk(BaseLayout, <<Undef("bar")>>, <<Rel(0, TEXT, RefOf("R4"), "R4")>>)
RelocLibModule == Mk(BaseLayout, <<Def("bar", 0, 1)>>, <<Rel(0, DATA, RefOf("R4"), "R4")>>)
RelocLibLists ==
  {<<DirLib("dlib", "libmod_1" :> RelocLibModule)>>, <<FileLib("flib", <<RelocLibModule>>)>>}

Cfg(ts, db, bb) == [text_start |-> ts, data_start_boundary |-> db, bss_start_boundary |-> bb]
Configs == {Cfg(16, 8, 4), Cfg(0, 0, 0)}

Session(objs, libs, cfg) ==
  [objs |-> objs, libs |-> libs, cfg |-> cfg, wrap |-> <<>>, checks |-> TRUE]

(* clients and library modules whose undefined names refer to one another *)
WorklistClients ==
  {Mk(BaseLayout, <<Undef("foo")>>, <<>>),
   Mk(BaseLayout, <<Undef("bar"), Undef("foo")>>, <<>>)}
WorklistModules ==
  {Mk(BaseLayout, <<Def("foo", 0, 1)>>, <<>>),
   Mk(BaseLayout, <<Def("foo", MaxSymValue, 2), Undef("bar")>>, <<>>),
   Mk(BaseLayout, <<Def("bar", 0, 1), Undef("foo")>>, <<>>)}
WorklistLibs ==
  {DirLib("dlib", ("libmod_1" :> m1) @@ ("libmod_2" :> m2)) :
     m1 \in WorklistModules, m2 \in WorklistModules}
  \cup {FileLib("flib", <<m1, m2>>) : m1 \in WorklistModules, m2 \in WorklistModules}
WorklistSessions ==
  {Session("mod_1" :> m, <<l>>, Cfg(16, 8, 4)) : m \in WorklistClients, l \in WorklistLibs}
  \cup {Session("mod_1" :> RelocClient, ll, c) : ll \in RelocLibLists, c \in Configs}

Sessions ==
  {Session("mod_1" :> m, <<>>, c) : m \in FirstModules, c \in Configs}
  \cup {[Session("mod_1" :> m, <<>>, c) EXCEPT !.checks = k] :
          m \in AddendModules, c \in Configs, k \in BOOLEAN}
  \cup {Session(("mod_1" :> m1) @@ ("mod_2" :> m2), <<>>, c) :
          m1 \in {Mk(BaseLayout, <<>>, <<>>)}, m2 \in FarRelModules, c \in Configs}
  \cup {Session("mod_1" :> m, <<>>, c) : m \in FarRelModules, c \in Configs}
  \cup {[Session("mod_1" :> m, <<>>, Cfg(16, 8, 4)) EXCEPT !.wrap = w] :
          m \in WrapInputs, w \in RoutineLists}
  \cup {[Session(("mod_1" :> m1) @@ ("mod_2" :> m2), <<>>, Cfg(16, 8, 4)) EXCEPT !.wrap = w] :
          m1 \in WrapInputs, m2 \in WrapInputs, w \in RoutineLists}
  \cup {[Session("mod_1" :> m, <<l>>, Cfg(16, 8, 4)) EXCEPT !.wrap = <<"foo">>] :
          m \in WrapInputs, l \in {DirLib("dlib", "libmod_1" :> x) : x \in LibModules}}
  \cup {Session(("mod_1" :> m1) @@ ("mod_2" :> m2), <<>>, c) :
          m1 \in FirstModules, m2 \in SecondModules, c \in Configs}
  \cup {Session("mod_1" :> m, ll, Cfg(16, 8, 4)) : m \in LibClients, ll \in LibLists}
  \cup {Session("mod_1" :> RelocClient, ll, c) : ll \in RelocLibLists, c \in Configs}
  \cup {Session("mod_1" :> m, ll, c) :
          m \in {Mk(BaseLayout, <<Undef("foo")>>, <<>>),
                 Mk(BaseLayout, <<Undef("bar"), Undef("foo")>>, <<>>)},
          ll \in StubLibLists, c \in Configs}

(* ------------------------------- state -------------------------------- *)
VARIABLES objs_arg, static_libs, routine_names, text_start, data_start_boundary,
          bss_start_boundary, overflow_checks, objs_in,
          pc, todo, out, info, session_objects, got_size, undef_syms,
          visited_libs_objs, bss_start, pending_rels, got_offset, result, ingested, pulled,
          fs_i, fs_n, fs_start, calls, first_link, of

inputs == <<objs_arg, static_libs, routine_names, text_start, data_start_boundary,
            bss_start_boundary, overflow_checks, fs_i, fs_n, fs_start, calls, first_link, of>>
vars == <<objs_arg, static_libs, routine_names, text_start, data_start_boundary,
          bss_start_boundary, overflow_checks, objs_in,
          pc, todo, out, info, session_objects, got_size, undef_syms,
          visited_libs_objs, bss_start, pending_rels, got_offset, result, ingested, pulled,
          fs_i, fs_n, fs_start, calls, first_link, of>>

(* no object file or library file is being read or written *)
OfIdle == [pc |-> "idle", files |-> EmptyMap, checks |-> TRUE, routines |-> <<>>,
           parsed |-> EmptyMap, printed |-> EmptyMap, reparsed |-> EmptyMap,
           logged |-> EmptyMap, lib_file |-> None, lib |-> None]

(* LinkerEditor::new followed by the entry of do_link *)
InitOf(s) ==
  /\ of = OfIdle
  /\ objs_arg = s.objs
  /\ objs_in = s.objs
  /\ static_libs = s.libs
  /\ routine_names = s.wrap
  /\ overflow_checks = s.checks
  /\ text_start = s.cfg.text_start
  /\ data_start_boundary = s.cfg.data_start_boundary
  /\ bss_start_boundary = s.cfg.bss_start_boundary
  /\ pc = "wrap"
  /\ todo = SortBy(IdOrder, DOMAIN s.objs)
  /\ out = ObjectOutNew
  /\ info = LinkerInfoNew
  /\ session_objects = EmptyMap
  /\ got_size = 0
  /\ undef_syms = <<>>
  /\ visited_libs_objs = {}
  /\ bss_start = 0
  /\ pending_rels = <<>>
  /\ got_offset = 0
  /\ result = "none"
  /\ ingested = <<>>
  /\ pulled = <<>>
  /\ fs_i = 0
  /\ fs_n = 0
  /\ fs_start = None
  /\ calls = 1
  /\ first_link = None

Init == \E s \in Sessions : InitOf(s)

(* do_link: "wrap specified routines" *)
WrapRoutines ==
  /\ pc = "wrap"
  /\ LET w == wrap_routines(objs_in, routine_names)
     IN IF IsSome(w.err)
        THEN /\ result' = Unwrap(w.err) /\ pc' = "done"
             /\ UNCHANGED objs_in
        ELSE /\ objs_in' = w.objs /\ pc' = "ingest"
             /\ UNCHANGED result
  /\ UNCHANGED <<inputs, pulled, todo, out, info, session_objects, got_size, undef_syms,
                 visited_libs_objs, bss_start, pending_rels, got_offset, ingested>>

(* do_link, "initial pass over input objects": one iteration *)
IngestObject ==
  /\ pc = "ingest" /\ todo # <<>>
  /\ LET obj_id == Head(todo)
         r == alloc_storage_and_symtables(obj_id, objs_in[obj_id], out, info)
     IN /\ out' = r.out
        /\ info' = r.info
        /\ todo' = Tail(todo)
        /\ IF IsSome(r.err)
           THEN /\ result' = Unwrap(r.err)
                /\ pc' = "done"
                /\ UNCHANGED <<got_size, session_objects, ingested>>
           ELSE /\ got_size' = got_size + r.got_size
                /\ session_objects' = Insert(session_objects, obj_id, objs_in[obj_id])
                /\ ingested' = Append(ingested, obj_id)
                /\ UNCHANGED <<result, pc>>
  /\ UNCHANGED <<inputs, pulled, objs_in, undef_syms, visited_libs_objs, bss_start, pending_rels, got_offset>>

(* do_link: the names without a definition, in the order of the table *)
CollectUndefined ==
  /\ pc = "ingest" /\ todo = <<>>
  /\ undef_syms' = SortBy(NameOrder, {n \in DOMAIN info.global_symtable :
                                        IsNone(info.global_symtable[n].defn)})
  /\ pc' = IF undef_syms' # <<>> THEN "libs" ELSE "layout"
  /\ UNCHANGED <<inputs, pulled, objs_in, todo, out, info, session_objects, got_size, visited_libs_objs,
                 bss_start, pending_rels, got_offset, result, ingested>>

(* a worklist that keeps the name it hands out *)
PopWorklist_keep(worklist) == worklist

(* undef_syms.pop(): the worklist without its last name *)
PopWorklist(worklist) == SubSeq(worklist, 1, Len(worklist) - 1)

(* static_libs_symbol_lookup: one iteration of the worklist loop *)
LibraryLookup ==
  /\ pc = "libs" /\ undef_syms # <<>>
  /\ LET undef_sym == undef_syms[Len(undef_syms)]
         st0 == [out |-> out, info |-> info, session |-> session_objects,
                   undef |-> PopWorklist(undef_syms),
                   visited |-> visited_libs_objs, got |-> got_size,
                   ingested |-> ingested, pulled |-> pulled, err |-> None]
     IN \E st \in {ScanLibs(static_libs, 1, undef_sym, st0)} :
          /\ out' = st.out
          /\ info' = st.info
          /\ session_objects' = st.session
          /\ undef_syms' = st.undef
          /\ visited_libs_objs' = st.visited
          /\ got_size' = st.got
          /\ ingested' = st.ingested
          /\ pulled' = st.pulled
          /\ IF IsSome(st.err)
             THEN result' = Unwrap(st.err) /\ pc' = "done"
             ELSE result' = result /\ pc' = IF st.undef = <<>> THEN "layout" ELSE "libs"
  /\ UNCHANGED <<inputs, objs_in, todo, bss_start, pending_rels, got_offset>>

(* do_link: patch_segment_offsets *)
PatchSegmentOffsets ==
  /\ pc = "layout"
  /\ LET p == patch_segment_offsets(out, info, got_size, text_start,
                                    data_start_boundary, bss_start_boundary)
     IN IF p.panic
        THEN /\ result' = "panic" /\ pc' = "done"
             /\ UNCHANGED <<out, info, bss_start>>
        ELSE /\ out' = p.out /\ info' = p.info /\ bss_start' = p.bss_start
             /\ pc' = "common"
             /\ UNCHANGED result
  /\ UNCHANGED <<inputs, pulled, objs_in, todo, session_objects, got_size, undef_syms, visited_libs_objs,
                 pending_rels, got_offset, ingested>>

(* do_link: common_block_allocation *)
CommonBlockAllocation ==
  /\ pc = "common"
  /\ out' = common_block_allocation(out, info, bss_start)
  /\ pc' = "undef_check"
  /\ UNCHANGED <<inputs, pulled, objs_in, todo, info, session_objects, got_size, undef_syms,
                 visited_libs_objs, bss_start, pending_rels, got_offset, result, ingested>>

(* do_link: "Check for undefined symbols" *)
UndefinedCheck ==
  /\ pc = "undef_check"
  /\ IF AnyUndefined(info)
     THEN result' = "UndefinedSymbolError" /\ pc' = "done"
     ELSE result' = result /\ pc' = "resolve"
  /\ UNCHANGED <<inputs, pulled, objs_in, todo, out, info, session_objects, got_size, undef_syms,
                 visited_libs_objs, bss_start, pending_rels, got_offset, ingested>>

(* do_link: resolve_global_sym_offsets, then the entry of run_relocations *)
ResolveGlobalSymOffsets ==
  /\ pc = "resolve"
  /\ LET r == resolve_global_sym_offsets(info, session_objects)
     IN IF r.panic
        THEN /\ result' = "panic" /\ pc' = "done"
             /\ UNCHANGED <<info, pending_rels>>
        ELSE /\ info' = r.info
             /\ pending_rels' = RelocationsInOrder(session_objects,
                                   SortBy(IdOrder, DOMAIN session_objects))
             /\ pc' = "reloc"
             /\ UNCHANGED result
  /\ got_offset' = 0
  /\ UNCHANGED <<inputs, pulled, objs_in, todo, out, session_objects, got_size, undef_syms,
                 visited_libs_objs, bss_start, ingested>>

(* run_relocations: one relocation *)
RunRelocation ==
  /\ pc = "reloc" /\ pending_rels # <<>>
  /\ LET p == Head(pending_rels)
         a == ApplyRelocation(out, info, p.modname, session_objects[p.modname], p.r,
                              got_offset, text_start, overflow_checks)
     IN /\ out' = a.out
        /\ got_offset' = a.got_offset
        /\ pending_rels' = Tail(pending_rels)
        /\ IF a.status = "ok"
           THEN UNCHANGED <<result, pc>>
           ELSE result' = a.status /\ pc' = "done"
  /\ UNCHANGED <<inputs, pulled, objs_in, todo, info, session_objects, got_size, undef_syms,
                 visited_libs_objs, bss_start, ingested>>

(* do_link: Ok((out, info)) *)
LinkComplete ==
  /\ pc = "reloc" /\ pending_rels = <<>>
  /\ result' = "Ok"
  /\ pc' = "done"
  /\ UNCHANGED <<inputs, pulled, objs_in, todo, out, info, session_objects, got_size, undef_syms,
                 visited_libs_objs, bss_start, pending_rels, got_offset, ingested>>

Next ==
  \/ WrapRoutines
  \/ IngestObject
  \/ CollectUndefined
  \/ LibraryLookup
  \/ PatchSegmentOffsets
  \/ CommonBlockAllocation
  \/ UndefinedCheck
  \/ ResolveGlobalSymOffsets
  \/ RunRelocation
  \/ LinkComplete

Spec == Init /\ [][Next]_vars

(* the links whose library worklist is exercised; the loop of
   static_libs_symbol_lookup is sequential code and keeps running *)
InitWorklist == \E s \in WorklistSessions : InitOf(s)
SpecWorklist == InitWorklist /\ [][Next]_vars /\ WF_vars(LibraryLookup)

(* ------------------ several links on one LinkerEditor ----------------- *)
(* the arguments of the calls of link: objs_in, static_libs, wrap_routines *)
LinkArgs(objs, libs) == [objs |-> objs, libs |-> libs, wrap |-> <<>>]
RelocModule == Mk(BaseLayout, <<Def("foo", 0, 1)>>, <<Rel(0, TEXT, RefOf("R4"), "R4")>>)
PlainModule == Mk(BaseLayout, <<>>, <<>>)
RelinkFirstArgs ==
  {LinkArgs("mod_1" :> RelocModule, <<>>),
   LinkArgs("mod_1" :> PlainModule, <<>>),
   LinkArgs("mod_1" :> Mk(BaseLayout, <<Undef("foo")>>, <<>>), <<>>),
   LinkArgs("mod_1" :> RelocClient, <<DirLib("dlib", "libmod_1" :> RelocLibModule)>>)}
RelinkSecondArgs ==
  {LinkArgs(("mod_1" :> PlainModule) @@ ("mod_2" :> RelocModule), <<>>),
   LinkArgs("mod_2" :> PlainModule, <<>>),
   LinkArgs(("mod_1" :> RelocModule) @@ ("mod_2" :> RelocModule), <<>>),
   LinkArgs("mod_1" :> RelocClient, <<FileLib("flib", <<RelocLibModule>>)>>)}
RelinkSessions ==
  {Session(a.objs, a.libs, c) : a \in RelinkFirstArgs, c \in Configs}

(* what a call of link returned *)
LinkResult ==
  [result |-> result,
   out |-> IF result = "Ok" THEN Some(out) ELSE None,
   info |-> IF result = "Ok" THEN Some(info) ELSE None]

(* the entry of do_link on an editor that has linked before: out, info    *)
(* and the locals are new, self.session_objects is the one left by the    *)
(* earlier calls                                                          *)
EnterLink(a) ==
  /\ objs_arg' = a.objs
  /\ objs_in' = a.objs
  /\ static_libs' = a.libs
  /\ routine_names' = a.wrap
  /\ pc' = "wrap"
  /\ todo' = SortBy(IdOrder, DOMAIN a.objs)
  /\ out' = ObjectOutNew
  /\ info' = LinkerInfoNew
  /\ got_size' = 0
  /\ undef_syms' = <<>>
  /\ visited_libs_objs' = {}
  /\ bss_start' = 0
  /\ pending_rels' = <<>>
  /\ got_offset' = 0
  /\ result' = "none"
  /\ ingested' = <<>>
  /\ pulled' = <<>>
  /\ calls' = calls + 1
  /\ UNCHANGED <<session_objects, text_start, data_start_boundary, bss_start_boundary,
                 overflow_checks, fs_i, fs_n, fs_start, of>>

(* link returned, without a panic, and is called again: the second call  *)
(* has other arguments, the third call has the arguments of the first     *)
LinkAgain ==
  /\ pc = "done"
  /\ result # "panic"
  /\ \/ /\ calls = 1
        /\ first_link' = Some([args |-> [objs |-> objs_arg, libs |-> static_libs,
                                         wrap |-> routine_names],
                               returned |-> LinkResult])
        /\ \E a \in RelinkSecondArgs : EnterLink(a)
     \/ /\ calls = 2
        /\ first_link' = first_link
        /\ EnterLink(Unwrap(first_link).args)

NextRelink == Next \/ LinkAgain
InitRelink == \E s \in RelinkSessions : InitOf(s)
SpecRelink == InitRelink /\ [][NextRelink]_vars

(* ----------------- find_seg_start called on its own ------------------- *)
(* no link is running *)
NoLink ==
  /\ objs_arg = EmptyMap
  /\ objs_in = EmptyMap
  /\ static_libs = <<>>
  /\ routine_names = <<>>
  /\ overflow_checks = TRUE
  /\ text_start = 0
  /\ data_start_boundary = 0
  /\ bss_start_boundary = 0
  /\ pc = "idle"
  /\ todo = <<>>
  /\ out = ObjectOutNew
  /\ info = LinkerInfoNew
  /\ session_objects = EmptyMap
  /\ got_size = 0
  /\ undef_syms = <<>>
  /\ visited_libs_objs = {}
  /\ bss_start = 0
  /\ pending_rels = <<>>
  /\ got_offset = 0
  /\ result = "none"
  /\ ingested = <<>>
  /\ pulled = <<>>
  /\ calls = 1
  /\ first_link = None

(* the arguments of a call of find_seg_start *)
InitFindSegStart ==
  /\ NoLink
  /\ of = OfIdle
  /\ fs_i \in (-MaxAlignArg)..MaxAlignArg
  /\ fs_n \in 0..MaxBoundary
  /\ fs_start = None

(* find_seg_start(i, n) returns *)
FindSegStart ==
  /\ pc = "idle"
  /\ fs_start = None
  /\ fs_start' = Some(find_seg_start(fs_i, fs_n))
  /\ UNCHANGED <<objs_arg, static_libs, routine_names, text_start, data_start_boundary,
                 bss_start_boundary, overflow_checks, objs_in,
                 pc, todo, out, info, session_objects, got_size, undef_syms,
                 visited_libs_objs, bss_start, pending_rels, got_offset, result,
                 ingested, pulled, fs_i, fs_n, calls, first_link, of>>

SpecFindSegStart == InitFindSegStart /\ [][FindSegStart]_vars

(* ====================== object files as text ========================== *)
(* A text is the sequence of its lines and a line the sequence of the     *)
(* pieces between its single spaces; an empty piece stands where two      *)
(* spaces meet or a space ends the line.                                  *)

(* ---- numbers in base 16 ---- *)
HexDigits == <<"0", "1", "2", "3", "4", "5", "6", "7", "8", "9",
               "A", "B", "C", "D", "E", "F">>
HexDigit(d) == HexDigits[d + 1]

(* format!("{:X}") of a number that is not negative *)
RECURSIVE ToHex(_)
ToHex(v) == IF v < 16 THEN HexDigit(v) ELSE ToHex(v \div 16) \o HexDigit(v % 16)

(* the k low digits of a number that is not negative *)
RECURSIVE HexPadded(_, _)
HexPadded(v, k) == IF k = 0 THEN "" ELSE HexPadded(v \div 16, k - 1) \o HexDigit(v % 16)

(* format!("{:X}") of an i32: a negative number is printed as the eight   *)
(* digits of its two's complement                                         *)
I32ToHex(v) ==
  IF v >= 0 THEN ToHex(v)
  ELSE LET u == v + 1073741824 + 1073741824
       IN HexDigit(8 + u \div 268435456) \o HexPadded(u % 268435456, 7)

(* format!("{d:02X}") of a byte *)
ByteToHex(d) == HexPadded(d, 2)

(* the numbers the texts of the model spell: counts, lengths, offsets and *)
(* line numbers up to MaxFileNum, and the byte FF                         *)
FileNums == 0..MaxFileNum \cup {255}

(* i32::from_str_radix(x, 16): digits of either case are read, zeros may  *)
(* lead and a sign may stand in front; the spellings known to the model   *)
(* are those of the numbers of FileNums, bare, with two digits and signed *)
I32Spellings(v) ==
  IF v >= 0
  THEN {ToHex(v), "+" \o ToHex(v)} \cup (IF v <= 255 THEN {ByteToHex(v)} ELSE {})
  ELSE {"-" \o ToHex(-v)}
I32Nums == FileNums \cup {-v : v \in FileNums}
I32SpellingTable == [v \in I32Nums |-> I32Spellings(v)]
i32_from_str_radix(x) ==
  IF \E v \in I32Nums : x \in I32SpellingTable[v]
  THEN Some(CHOOSE v \in I32Nums : x \in I32SpellingTable[v])
  ELSE None

(* usize::from_str_radix(x, 16) and u8::from_str_radix(x, 16): as above,  *)
(* a minus sign is refused                                                *)
usize_from_str_radix(x) ==
  IF \E v \in FileNums : x \in I32SpellingTable[v]
  THEN Some(CHOOSE v \in FileNums : x \in I32SpellingTable[v])
  ELSE None
u8_from_str_radix(x) ==
  LET v == usize_from_str_radix(x)
  IN IF IsSome(v) /\ Unwrap(v) <= 255 THEN v ELSE None

(* ---- strings under construction ---- *)
(* String::new(): one line, still open, with nothing on it *)
EmptyText == <<<<>>>>

(* what two strings put end to end make of the line where they meet *)
GlueLines(l1, l2) ==
  IF l1 = <<>> THEN l2
  ELSE IF l2 = <<>> THEN l1
  ELSE SubSeq(l1, 1, Len(l1) - 1) \o <<l1[Len(l1)] \o l2[1]>> \o Tail(l2)

(* s.push_str(t) for a text t of one line or more *)
PushText(s, t) ==
  SubSeq(s, 1, Len(s) - 1) \o <<GlueLines(s[Len(s)], t[1])>> \o Tail(t)

(* lines.join("\n"): the empty string for no line at all *)
JoinLines(ls) == IF ls = <<>> THEN EmptyText ELSE ls

(* s.push('\n') *)
PushNewline(s) == Append(s, <<>>)

(* str::lines(): a line end at the very end opens no further line *)
Lines(s) == IF s[Len(s)] = <<>> THEN SubSeq(s, 1, Len(s) - 1) ELSE s

(* count_new_lines *)
count_new_lines(s) == Len(s) - 1

(* split_whitespace, split_ascii_whitespace: the pieces that are not empty *)
SplitWhitespace(line) == SelectSeq(line, LAMBDA x : x # "")

(* ---- Result ---- *)
Ok(x) == [ok |-> TRUE, val |-> <<x>>, err |-> "none"]
Err(e) == [ok |-> FALSE, val |-> <<>>, err |-> e]
(* a panic of the parser, which ends the program *)
Panicked == Err("panic")

(* ---- segments ---- *)
Segment(name, start, len, descr) ==
  [segment_name |-> name, segment_start |-> start, segment_len |-> len,
   segment_descr |-> descr]

(* the descriptor lists of the model; a descriptor string is read letter  *)
(* by letter, the strings known to the model are those of these lists     *)
SegmentDescrs == {<<"R">>, <<"W">>, <<"P">>, <<"R", "P">>, <<"R", "W">>, <<"R", "W", "P">>}

(* Segment::ppr_seg_descr *)
RECURSIVE ppr_seg_descr(_)
ppr_seg_descr(descr) == IF descr = <<>> THEN "" ELSE descr[1] \o ppr_seg_descr(Tail(descr))

parse_segment(s) ==
  LET vs == SplitWhitespace(s)
  IN IF Len(vs) # 4 THEN Err("InvalidSegment")
     ELSE IF vs[1] \notin {".text", ".data", ".bss"} THEN Err("InvalidSegmentName")
     ELSE IF IsNone(i32_from_str_radix(vs[2])) THEN Err("InvalidSegmentStart")
     ELSE IF IsNone(i32_from_str_radix(vs[3])) THEN Err("InvalidSegmentLen")
     ELSE IF ~\E d \in SegmentDescrs : ppr_seg_descr(d) = vs[4]
          THEN Err("InvalidSegmentDescr")
     ELSE Ok(Segment(vs[1], Unwrap(i32_from_str_radix(vs[2])),
                     Unwrap(i32_from_str_radix(vs[3])),
                     CHOOSE d \in SegmentDescrs : ppr_seg_descr(d) = vs[4]))

(* `len as usize`: a negative i32 becomes a number larger than any length *)
AsUsizeLen(len) == IF len < 0 THEN 2147483647 ELSE len

(* parse_segment_data: a piece that is no byte makes unwrap panic *)
parse_segment_data(seg_len, s) ==
  LET x == SplitWhitespace(s)
  IN IF \E i \in 1..Len(x) : IsNone(u8_from_str_radix(x[i])) THEN Panicked
     ELSE IF Len(x) # seg_len THEN Err("SegmentDataLengthMismatch")
     ELSE Ok([i \in 1..Len(x) |-> Unwrap(u8_from_str_radix(x[i]))])

(* ---- symbol table entries ---- *)
parse_symbol_table_entry(nsegs, s) ==
  LET vs == SplitWhitespace(s)
  IN IF Len(vs) # 4 THEN Err("InvalidSymbolTableEntry")
     ELSE IF IsNone(i32_from_str_radix(vs[2])) THEN Err("InvalidSTEValue")
     ELSE IF IsNone(i32_from_str_radix(vs[3])) THEN Err("InvalidSTESegment")
     ELSE IF Unwrap(i32_from_str_radix(vs[3])) > nsegs THEN Err("STESegmentRefOutOfRange")
     ELSE IF vs[4] \notin {"D", "U"} THEN Err("InvalidSTEType")
     ELSE Ok(Ste(vs[1], Unwrap(i32_from_str_radix(vs[2])),
                 Unwrap(i32_from_str_radix(vs[3])), vs[4]))

(* impl Display for SymbolName *)
SymbolNameDisplay(n) == IF n = Deref(n) THEN n ELSE "wrap_" \o Deref(n)

(* ---- relocations ---- *)
(* impl Display for RelRef *)
RelRefDisplay(ref) == IF ref = NoRef THEN "" ELSE ToHex(ref[2])

(* parse_relocation; `i - 1` of the usize 0 panics in a build that checks *)
(* overflow and wraps to a number past every index in one that does not   *)
parse_relocation(segs, st, s, checks) ==
  LET vs == SplitWhitespace(s)
  IN IF Len(vs) # 4 THEN Err("InvalidRelocationEntry")
     ELSE IF IsNone(i32_from_str_radix(vs[1])) THEN Err("InvalidRelRef")
     ELSE IF IsNone(i32_from_str_radix(vs[2])) THEN Err("InvalidRelSegment")
     ELSE IF Unwrap(i32_from_str_radix(vs[2])) \notin 1..Len(segs)
          THEN Err("RelSegmentOutOfRange")
     ELSE IF vs[4] \notin RelTypes THEN Err("InvalidRelType")
     ELSE IF IsNone(usize_from_str_radix(vs[3])) THEN Err("InvalidRelRef")
     ELSE LET rel_loc == Unwrap(i32_from_str_radix(vs[1]))
              rel_seg == segs[Unwrap(i32_from_str_radix(vs[2]))].segment_name
              i == Unwrap(usize_from_str_radix(vs[3]))
          IN IF vs[4] \in {"GA4", "ER4"} THEN Ok(Rel(rel_loc, rel_seg, NoRef, vs[4]))
             ELSE IF i = 0 /\ checks THEN Panicked
             ELSE IF vs[4] \in {"A4", "R4", "GR4"}
             THEN IF i \notin 1..Len(segs) THEN Err("RelSegmentOutOfRange")
                  ELSE Ok(Rel(rel_loc, rel_seg, SegmentRef(i - 1), vs[4]))
             ELSE IF i \notin 1..Len(st) THEN Err("RelSymbolOutOfRange")
                  ELSE Ok(Rel(rel_loc, rel_seg, SymbolRef(i - 1), vs[4]))

(* ---- object files ---- *)
ObjectIn(nsegs, nsyms, nrels, segments, symbol_table, relocations, object_data) ==
  [nsegs |-> nsegs, nsyms |-> nsyms, nrels |-> nrels, segments |-> segments,
   symbol_table |-> symbol_table, relocations |-> relocations,
   object_data |-> object_data]

MAGIC_NUMBER == "LINK"

(* parse_nsegs_nsyms_nrels: the line at position pos of the input *)
parse_nsegs_nsyms_nrels(input, pos) ==
  IF pos > Len(input) THEN Err("MissingNSegsNSumsNRels")
  ELSE LET vs == SplitWhitespace(input[pos])
       IN IF Len(vs) # 3 THEN Err("InvalidNSegsNSumsNRels")
          ELSE IF IsNone(i32_from_str_radix(vs[1])) THEN Err("InvalidNSegsValue")
          ELSE IF IsNone(i32_from_str_radix(vs[2])) THEN Err("InvalidNSymsValue")
          ELSE IF IsNone(i32_from_str_radix(vs[3])) THEN Err("InvalidNRelsValue")
          ELSE Ok(<<Unwrap(i32_from_str_radix(vs[1])), Unwrap(i32_from_str_radix(vs[2])),
                    Unwrap(i32_from_str_radix(vs[3]))>>)

(* the parser of the lines of one table, and the error of a table that   *)
(* is too short or too long                                               *)
ParseEntry(table, ctx, s) ==
  CASE table = "segments" -> parse_segment(s)
    [] table = "symbols" -> parse_symbol_table_entry(ctx.nsegs, s)
    [] table = "relocations" -> parse_relocation(ctx.segments, ctx.symbol_table, s, ctx.checks)
    [] table = "data" ->
         parse_segment_data(AsUsizeLen(ctx.segments[ctx.i + 1].segment_len), s)
InvalidNumOf(table) ==
  CASE table = "segments" -> "InvalidNumOfSegments"
    [] table = "symbols" -> "InvalidNumOfSTEs"
    [] table = "relocations" -> "InvalidNumOfRelocations"
    [] table = "data" -> "InvalidObjectData"

(* `for i in 0..n`: the loop over the lines of one table, from the line   *)
(* at position pos; a count that is not positive reads no line.  The      *)
(* result holds the entries read and the position of the next line.       *)
RECURSIVE ReadTable(_, _, _, _, _, _, _)
PushEntry(table, ctx, input, pos, i, n, acc, e) ==
  IF ~e.ok THEN e
  ELSE ReadTable(table, ctx, input, pos + 1, i + 1, n, Append(acc, Unwrap(e.val)))

ReadTable(table, ctx, input, pos, i, n, acc) ==
  IF i >= n THEN Ok([entries |-> acc, pos |-> pos])
  ELSE IF pos > Len(input) THEN Err(InvalidNumOf(table))
  ELSE PushEntry(table, ctx, input, pos, i, n, acc,
                 ParseEntry(table, [ctx EXCEPT !.i = i], input[pos]))

(* `if let Some(&l) = input.peek()`: one line more that reads as an entry *)
(* of the table                                                           *)
PeekIsEntry(table, ctx, input, pos) ==
  pos <= Len(input) /\ ParseEntry(table, ctx, input[pos]).ok
PeekPanics(table, ctx, input, pos) ==
  pos <= Len(input) /\ ParseEntry(table, ctx, input[pos]) = Panicked

(* parse_object_file, from its last part to its first: the object data,   *)
(* the relocations, the symbol table, the segments                        *)
ParseObjectData(input, hdr, ctx, rels, pos) ==
  LET data == ReadTable("data", ctx, input, pos, 0, hdr[1], <<>>)
  IN IF ~data.ok THEN data
     ELSE IF Unwrap(data.val).pos <= Len(input) THEN Err("SegmentDataOutOfBounds")
     ELSE Ok(ObjectIn(hdr[1], hdr[2], hdr[3], ctx.segments, ctx.symbol_table,
                      rels, Unwrap(data.val).entries))

ParseRelocations(input, hdr, ctx, pos) ==
  LET rels == ReadTable("relocations", ctx, input, pos, 0, hdr[3], <<>>)
  IN IF ~rels.ok THEN rels
     ELSE IF PeekPanics("relocations", ctx, input, Unwrap(rels.val).pos) THEN Panicked
     ELSE IF PeekIsEntry("relocations", ctx, input, Unwrap(rels.val).pos)
          THEN Err("InvalidNumOfRelocations")
     ELSE ParseObjectData(input, hdr, ctx, Unwrap(rels.val).entries, Unwrap(rels.val).pos)

ParseSymbolTable(input, hdr, ctx, pos) ==
  LET stes == ReadTable("symbols", ctx, input, pos, 0, hdr[2], <<>>)
  IN IF ~stes.ok THEN stes
     ELSE IF PeekIsEntry("symbols", [ctx EXCEPT !.symbol_table = Unwrap(stes.val).entries],
                         input, Unwrap(stes.val).pos)
          THEN Err("InvalidNumOfSTEs")
     ELSE ParseRelocations(input, hdr,
                           [ctx EXCEPT !.symbol_table = Unwrap(stes.val).entries],
                           Unwrap(stes.val).pos)

ParseSegments(input, hdr, ctx) ==
  LET segs == ReadTable("segments", ctx, input, 3, 0, hdr[1], <<>>)
  IN IF ~segs.ok THEN segs
     ELSE IF PeekIsEntry("segments", [ctx EXCEPT !.segments = Unwrap(segs.val).entries],
                         input, Unwrap(segs.val).pos)
          THEN Err("InvalidNumOfSegments")
     ELSE ParseSymbolTable(input, hdr, [ctx EXCEPT !.segments = Unwrap(segs.val).entries],
                           Unwrap(segs.val).pos)

parse_object_file(file_contents, checks) ==
  LET input == Lines(file_contents)
  IN IF input = <<>> THEN Err("MissingMagicNumber")
     ELSE IF input[1] # <<MAGIC_NUMBER>> THEN Err("InvalidMagicNumber")
     ELSE LET hdr == parse_nsegs_nsyms_nrels(input, 2)
          IN IF ~hdr.ok THEN hdr
             ELSE ParseSegments(input, Unwrap(hdr.val),
                                [nsegs |-> Unwrap(hdr.val)[1], segments |-> <<>>,
                                 symbol_table |-> <<>>, checks |-> checks, i |-> 0])

(* ObjectIn::ppr *)
PprSegment(seg) ==
  <<seg.segment_name, I32ToHex(seg.segment_start), I32ToHex(seg.segment_len),
    ppr_seg_descr(seg.segment_descr)>>
PprSte(ste) ==
  <<SymbolNameDisplay(ste.st_name), I32ToHex(ste.st_value), I32ToHex(ste.st_seg), ste.st_type>>
(* position(|s| s.segment_name == rel.rel_seg).unwrap() + 1 *)
SegPosition(segments, name) ==
  (CHOOSE k \in 1..Len(segments) :
     /\ segments[k].segment_name = name
     /\ \A j \in 1..(k - 1) : segments[j].segment_name # name)
PprRelocation(obj, rel) ==
  <<I32ToHex(rel.rel_loc), ToHex(SegPosition(obj.segments, rel.rel_seg)),
    RelRefDisplay(rel.rel_ref), rel.rel_type>>
PprData(data) == [i \in 1..Len(data) |-> ByteToHex(data[i])]

ppr(obj, include_hdr) ==
  LET s0 == IF include_hdr THEN PushText(EmptyText, <<<<MAGIC_NUMBER>>>>) ELSE EmptyText
      s1 == PushNewline(PushText(s0, <<<<I32ToHex(obj.nsegs), I32ToHex(obj.nsyms),
                                       I32ToHex(obj.nrels)>>>>))
      s2 == PushNewline(PushText(s1,
              JoinLines([i \in 1..Len(obj.segments) |-> PprSegment(obj.segments[i])])))
      s3 == PushNewline(PushText(s2,
              JoinLines([i \in 1..Len(obj.symbol_table) |-> PprSte(obj.symbol_table[i])])))
      s4 == PushText(s3,
              JoinLines([i \in 1..Len(obj.relocations) |->
                           PprRelocation(obj, obj.relocations[i])]))
  IN PushText(s4, JoinLines([i \in 1..Len(obj.object_data) |-> PprData(obj.object_data[i])]))

(* ---- library files ---- *)
MAGIC_NUMBER_LIB == "LIBRARY"

(* the texts of a list put one after the other, a line end in between *)
RECURSIVE ConcatTexts(_)
ConcatTexts(ts) == IF ts = <<>> THEN <<>> ELSE ts[1] \o ConcatTexts(Tail(ts))

(* the names of the Defined symbols of a module, in table order *)
DefinedSyms(obj) ==
  LET d == SelectSeq(obj.symbol_table, LAMBDA ste : ste.st_type = "D")
  IN [i \in 1..Len(d) |-> Deref(d[i].st_name)]

(* make_staticlib_file: the modules in the order of their names, then one *)
(* directory line a module, the header in front; st = [offset, modules,   *)
(* mod_details]                                                           *)
RECURSIVE StaticLibEntries(_, _, _)
StaticLibEntries(objects, names, st) ==
  IF names = <<>> THEN st
  ELSE LET printed_obj == ppr(objects[names[1]], FALSE)
           mod_len == count_new_lines(printed_obj) + 1
           syms == DefinedSyms(objects[names[1]])
       IN StaticLibEntries(objects, Tail(names),
            [offset |-> st.offset + mod_len,
             modules |-> Append(st.modules, printed_obj),
             mod_details |-> Append(st.mod_details,
                               <<ToHex(st.offset), ToHex(mod_len)>>
                                 \o (IF syms = <<>> THEN <<"">> ELSE syms))])

make_staticlib_file(objects) ==
  LET st == StaticLibEntries(objects, SortBy(IdOrder, DOMAIN objects),
                             [offset |-> 2, modules |-> <<>>, mod_details |-> <<>>])
      hdr == <<MAGIC_NUMBER_LIB, ToHex(Cardinality(DOMAIN objects)), ToHex(st.offset)>>
  IN <<hdr>> \o ConcatTexts(st.modules) \o st.mod_details

(* build_static_filelib: every file is parsed, then the library is written *)
build_static_filelib(parsed) ==
  IF \E id \in DOMAIN parsed : parsed[id] = Panicked THEN Panicked
  ELSE IF \E id \in DOMAIN parsed : ~parsed[id].ok THEN Err("ObjectParseFailure")
  ELSE Ok(make_staticlib_file([id \in DOMAIN parsed |-> Unwrap(parsed[id].val)]))

(* parse_file_lib, one directory entry: st = [objects, symbols]; an index *)
(* past the lines of the file and a piece that is no number panic; the    *)
(* offset 0 panics at `- 1` in a build that checks overflow and gives an  *)
(* empty range of lines in one that does not                              *)
RECURSIVE ReadLibModules(_, _, _, _, _, _)
(* the module o read for the directory entry mod_entry, and its symbols *)
PushLibModule(file_lines, lib_dir_offset, i, num_of_mods, checks, st, mod_entry, o) ==
  IF o = Panicked THEN Panicked
  ELSE IF ~o.ok THEN Err("ObjectParseFailure")
  ELSE ReadLibModules(file_lines, lib_dir_offset, i + 1, num_of_mods, checks,
         [objects |-> Append(st.objects, Unwrap(o.val)),
          symbols |->
            [n \in DOMAIN st.symbols \cup {mod_entry[k] : k \in 3..Len(mod_entry)} |->
               IF \E k \in 3..Len(mod_entry) : mod_entry[k] = n
               THEN i ELSE st.symbols[n]]])

(* the lines offset..offset + len of the file, read as an object file *)
ReadLibModule(file_lines, lib_dir_offset, i, num_of_mods, checks, st, mod_entry, offset, len) ==
  IF (offset < 0 /\ checks) \/ (offset >= 0 /\ offset + len > Len(file_lines))
  THEN Panicked
  ELSE PushLibModule(file_lines, lib_dir_offset, i, num_of_mods, checks, st, mod_entry,
         parse_object_file(<<<<MAGIC_NUMBER>>>>
                             \o (IF offset < 0 THEN <<>>
                                 ELSE SubSeq(file_lines, offset + 1, offset + len)),
                           checks))

ReadLibModules(file_lines, lib_dir_offset, i, num_of_mods, checks, st) ==
  IF i >= num_of_mods THEN Ok(st)
  ELSE IF lib_dir_offset + i - 1 \notin 0..(Len(file_lines) - 1) THEN Panicked
  ELSE LET mod_entry == file_lines[lib_dir_offset + i]
       IN IF Len(mod_entry) < 2 THEN Err("ParseLibError")
          ELSE IF IsNone(usize_from_str_radix(mod_entry[1])) THEN Panicked
          ELSE IF IsNone(usize_from_str_radix(mod_entry[2])) THEN Panicked
          ELSE ReadLibModule(file_lines, lib_dir_offset, i, num_of_mods, checks, st,
                             mod_entry, Unwrap(usize_from_str_radix(mod_entry[1])) - 1,
                             Unwrap(usize_from_str_radix(mod_entry[2])))

parse_file_lib(file_contents, checks) ==
  LET file_lines == Lines(file_contents)
  IN IF file_lines = <<>> THEN Panicked
     ELSE LET hdr == file_lines[1]
          IN IF Len(hdr) # 3 \/ hdr[1] # MAGIC_NUMBER_LIB THEN Err("ParseLibError")
             ELSE IF IsNone(usize_from_str_radix(hdr[2])) THEN Panicked
             ELSE IF IsNone(usize_from_str_radix(hdr[3])) THEN Panicked
             ELSE ReadLibModules(file_lines, Unwrap(usize_from_str_radix(hdr[3])), 0,
                                 Unwrap(usize_from_str_radix(hdr[2])), checks,
                                 [objects |-> <<>>, symbols |-> EmptyMap])

(* ---- the files read ---- *)
(* segment tables with the data lines that go with them *)
SegmentTables ==
  {[segs |-> <<>>, data |-> <<>>],
   [segs |-> <<<<".text", "0", "2", "RP">>>>, data |-> <<<<"00", "FF">>>>],
   [segs |-> <<<<".text", "0", "2", "RP">>, <<".data", "0", "1", "RWP">>>>,
    data |-> <<<<"00", "01">>, <<"FF">>>>],
   [segs |-> <<<<".text", "0", "1", "RP">>, <<".bss", "0", "0", "RW">>>>,
    data |-> <<<<"01">>, <<>>>>]}
SymbolTables ==
  {<<>>, <<<<"foo", "0", "1", "D">>>>, <<<<"foo", "0", "0", "U">>>>,
   <<<<"bar", "0", "0", "U">>, <<"foo", "1", "1", "D">>>>}
RelocationTables ==
  {<<>>, <<<<"0", "1", "1", "R4">>>>, <<<<"0", "1", "1", "AS4">>>>,
   <<<<"0", "1", "0", "GA4">>>>, <<<<"0", "1", "0", "R4">>>>}

(* the ways a count is written in the header: in base 16, and for zero    *)
(* also as a negative number                                              *)
CountSpellings(n) == IF n = 0 THEN {"0", "-1"} ELSE {ToHex(n)}

(* an object file: magic number, counts, tables, data, every line ended *)
ObjectFile(hdr, st, syms, rels) ==
  <<<<MAGIC_NUMBER>>, hdr>> \o st.segs \o syms \o rels \o st.data \o <<<<>>>>
ObjectFiles ==
  UNION {{ObjectFile(<<h1, h2, h3>>, st, syms, rels) :
            h1 \in CountSpellings(Len(st.segs)), h2 \in CountSpellings(Len(syms)),
            h3 \in CountSpellings(Len(rels))} :
           st \in SegmentTables, syms \in SymbolTables, rels \in RelocationTables}

(* the files of which libraries are made *)
LibraryMembers ==
  {ObjectFile(<<ToHex(Len(st.segs)), ToHex(Len(syms)), ToHex(Len(rels))>>, st, syms, rels) :
     st \in {x \in SegmentTables : Len(x.segs) \in {1, 2}},
     syms \in {<<<<"foo", "0", "1", "D">>>>, <<<<"foo", "0", "0", "U">>>>},
     rels \in {<<>>, <<<<"0", "1", "1", "R4">>>>}}

FileSets ==
  {"mod_1" :> t : t \in ObjectFiles}
  \cup {("mod_1" :> t1) @@ ("mod_2" :> t2) : t1 \in LibraryMembers, t2 \in LibraryMembers}

(* ---- reading, printing and archiving object files ---- *)
InitObjectFiles ==
  /\ NoLink
  /\ fs_i = 0
  /\ fs_n = 0
  /\ fs_start = None
  /\ \E fsx \in FileSets, c \in BOOLEAN, w \in {<<>>, <<"foo">>} :
       of = [OfIdle EXCEPT !.pc = "parse", !.files = fsx, !.checks = c, !.routines = w]

(* no step on files changes anything of the link *)
LinkUnchanged ==
  UNCHANGED <<objs_arg, static_libs, routine_names, text_start, data_start_boundary,
              bss_start_boundary, overflow_checks, objs_in,
              pc, todo, out, info, session_objects, got_size, undef_syms,
              visited_libs_objs, bss_start, pending_rels, got_offset, result,
              ingested, pulled, fs_i, fs_n, fs_start, calls, first_link>>

(* the objects parse_object_file returned for the files *)
ParsedObjects ==
  [id \in {x \in DOMAIN of.parsed : of.parsed[x].ok} |-> Unwrap(of.parsed[id].val)]

(* parse_object_file on every file *)
ParseObjectFiles ==
  /\ LinkUnchanged
  /\ of.pc = "parse"
  /\ of' = [of EXCEPT !.pc = "print",
                      !.parsed = [id \in DOMAIN of.files |->
                                    parse_object_file(of.files[id], of.checks)]]

(* ObjectIn::ppr(true) on every object read *)
PrintObjects ==
  /\ LinkUnchanged
  /\ of.pc = "print"
  /\ of' = [of EXCEPT !.pc = "reparse",
                      !.printed = [id \in DOMAIN ParsedObjects |->
                                     ppr(ParsedObjects[id], TRUE)]]

(* parse_object_file on every text printed *)
ReparseObjects ==
  /\ LinkUnchanged
  /\ of.pc = "reparse"
  /\ of' = [of EXCEPT !.pc = "log",
                      !.reparsed = [id \in DOMAIN of.printed |->
                                      parse_object_file(of.printed[id], of.checks)]]

(* do_link: wrap_routines, then the ppr(true) of every object of the      *)
(* session that alloc_storage_and_symtables writes to the log             *)
LogSessionObjects ==
  /\ LinkUnchanged
  /\ of.pc = "log"
  /\ LET w == wrap_routines(ParsedObjects, of.routines)
     IN of' = [of EXCEPT !.pc = "build",
                         !.logged = IF IsSome(w.err) THEN EmptyMap
                                    ELSE [id \in DOMAIN w.objs |->
                                            [obj |-> w.objs[id],
                                             text |-> ppr(w.objs[id], TRUE)]]]

(* build_static_filelib on the files *)
BuildStaticFileLib ==
  /\ LinkUnchanged
  /\ of.pc = "build"
  /\ of' = [of EXCEPT !.pc = "parse_lib",
                      !.lib_file = Some(build_static_filelib(of.parsed))]

(* StaticLib::parse on the library file written *)
ParseFileLib ==
  /\ LinkUnchanged
  /\ of.pc = "parse_lib"
  /\ of' = [of EXCEPT !.pc = "done",
                      !.lib = IF Unwrap(of.lib_file).ok
                              THEN Some(parse_file_lib(Unwrap(Unwrap(of.lib_file).val),
                                                       of.checks))
                              ELSE None]

NextObjectFiles ==
  \/ ParseObjectFiles
  \/ PrintObjects
  \/ ReparseObjects
  \/ LogSessionObjects
  \/ BuildStaticFileLib
  \/ ParseFileLib

SpecObjectFiles == InitObjectFiles /\ [][NextObjectFiles]_vars

(* ============================ properties ============================== *)
SymNames == {NameOrder[i] : i \in 1..Len(NameOrder)}
InputSegNames == {TEXT, DATA, BSS}
Errors == {"MultipleSymbolDefinitions", "UndefinedSymbolError", "AddressOverflowError",
           "WrappedSymbolNameAlreadyExists"}

Gst == info.global_symtable

(* length a module contributes to the output segment s *)
SegLenOf(m, s) ==
  SumSeq([i \in 1..Len(m.segments) |->
            IF m.segments[i].segment_name = s THEN m.segments[i].segment_len ELSE 0])

(* total length contributed to s by the first k modules of the ingestion order *)
ContributedBy(k, s) ==
  SumSeq([j \in 1..k |-> SegLenOf(session_objects[ingested[j]], s)])

(* the declarations (module, index) of name n that are Defined, among the *)
(* modules whose registration was started                                  *)
DefinedDecls(n) ==
  {p \in UNION {{<<m, i>> : i \in 1..Len(info.symbol_tables[m])} :
                  m \in DOMAIN info.symbol_tables} :
     /\ is_defined(info.symbol_tables[p[1]][p[2]])
     /\ info.symbol_tables[p[1]][p[2]].st_name = n}

(* the sizes asked for name n by the common block declarations of the     *)
(* ingested modules                                                        *)
CommonDecls(n) ==
  {t.st_value :
     t \in {u \in UNION {{session_objects[m].symbol_table[i] :
                            i \in 1..Len(session_objects[m].symbol_table)} :
                           m \in DOMAIN session_objects} :
             u.st_type = "U" /\ u.st_value # 0 /\ u.st_name = n}}

Max(S) == CHOOSE x \in S : \A y \in S : y <= x

GP4Count ==
  SumSeq([j \in 1..Len(ingested) |->
            Cardinality({i \in 1..Len(session_objects[ingested[j]].relocations) :
                           session_objects[ingested[j]].relocations[i].rel_type = "GP4"})])

(* the least multiple of n that is not below x *)
AlignUp(x, n) == IF n = 0 THEN x ELSE CHOOSE y \in x..(x + n - 1) : y % n = 0

(* C1: when a module that is being ingested (an input module or a module *)
(* pulled from a library) declares a Defined symbol whose name already    *)
(* has a definition, the link ends with MultipleSymbolDefinitions, and a  *)
(* definition slot that is set keeps its module and symbol index in every *)
(* later step.                                                            *)
C1_MultipleDefinitionsRejected ==
  /\ [](\A n \in SymNames :
          Cardinality(DefinedDecls(n)) > 1 => result = "MultipleSymbolDefinitions")
  /\ [][\A n \in DOMAIN Gst :
          IsSome(Gst[n].defn) =>
            /\ Has(info'.global_symtable, n)
            /\ IsSome(info'.global_symtable[n].defn)
            /\ Unwrap(info'.global_symtable[n].defn).defn_mod_id
                 = Unwrap(Gst[n].defn).defn_mod_id
            /\ Unwrap(info'.global_symtable[n].defn).defn_ste_ix
                 = Unwrap(Gst[n].defn).defn_ste_ix]_vars

(* a library module was pulled whose Defined symbol met a definition *)
C1_Witness ==
  /\ result = "MultipleSymbolDefinitions"
  /\ static_libs # <<>>
  /\ Len(ingested) >= 1
  /\ \E n \in SymNames : Cardinality(DefinedDecls(n)) > 1

(* C2 (as stated): once library satisfaction is over, a name that still   *)
(* lacks a definition makes the link end with UndefinedSymbolError, and   *)
(* Ok is returned only when every entry carries a definition.             *)
C2_UndefinedIsAnError ==
  /\ result = "Ok" => ~AnyUndefined(info)
  /\ (pc = "done" /\ result # "MultipleSymbolDefinitions" /\ AnyUndefined(info))
       => result = "UndefinedSymbolError"

(* C3 (as stated): the link ends with Ok or with a LinkError, never with  *)
(* an abort.                                                              *)
C3_NoAbort == pc = "done" => result \in {"Ok"} \cup Errors

(* the symbol table entry, in its module, a definition points to *)
DeclOf(d) == session_objects[d.defn_mod_id].symbol_table[Unwrap(d.defn_ste_ix) + 1]

(* the segment of the defining module the symbol is relative to *)
DeclSeg(d) == session_objects[d.defn_mod_id].segments[DeclOf(d).st_seg].segment_name

(* C4: after a successful link every entry of the global symbol table has *)
(* a definition with an address, and the address of a definition coming   *)
(* from an object module is the offset, after layout, of the segment the  *)
(* symbol's 1-based segment index selects in the defining module, plus    *)
(* the symbol's value.                                                    *)
C4_FinalAddresses ==
  result = "Ok" =>
    \A n \in DOMAIN Gst :
      /\ IsSome(Gst[n].defn)
      /\ IsSome(Unwrap(Gst[n].defn).defn_addr)
      /\ Unwrap(Gst[n].defn).defn_prov = "FromObjectIn" =>
           LET d == Unwrap(Gst[n].defn)
           IN /\ DeclOf(d).st_name = n
              /\ is_defined(DeclOf(d))
              /\ Unwrap(d.defn_addr)
                   = info.segment_mapping[d.defn_mod_id][DeclSeg(d)] + DeclOf(d).st_value

(* a symbol of non-zero value, relative to a segment other than the       *)
(* module's first, defined by a module that is not the first one ingested *)
C4_Witness ==
  /\ result = "Ok"
  /\ \E n \in DOMAIN Gst :
       /\ IsSome(Gst[n].defn)
       /\ LET d == Unwrap(Gst[n].defn)
          IN /\ d.defn_mod_id # ingested[1]
             /\ DeclOf(d).st_value > 0
             /\ DeclOf(d).st_seg > 1
             /\ Unwrap(d.defn_addr) > out.segments[DeclSeg(d)].segment_start
                                        + DeclOf(d).st_value

(* the bytes of .bss that common blocks account for *)
CommonPart(s) == IF s = BSS THEN CommonBlockTotal(info) ELSE 0

(* C5 (as stated): after a successful link every output segment has a    *)
(* data buffer whose length is the segment's segment_len.                 *)
C5_BufferLengths ==
  result = "Ok" =>
    \A s \in DOMAIN out.segments :
      /\ Has(out.object_data, s)
      /\ Len(out.object_data[s]) = out.segments[s].segment_len

(* C5 (amended): after a successful link the data buffer of an output     *)
(* segment other than .bss has the segment's segment_len; the buffer of   *)
(* .bss is shorter than segment_len by the sum of the common block sizes, *)
(* and a .bss made by common block allocation alone has no buffer.        *)
C5_BufferLengthsButCommon ==
  result = "Ok" =>
    /\ DOMAIN out.object_data \subseteq DOMAIN out.segments
    /\ \A s \in DOMAIN out.object_data :
         Len(out.object_data[s]) + CommonPart(s) = out.segments[s].segment_len
    /\ \A s \in DOMAIN out.segments \ DOMAIN out.object_data :
         s = BSS /\ out.segments[s].segment_len = CommonBlockTotal(info)

(* two modules with .bss bytes and a common block *)
C5_Witness ==
  /\ result = "Ok"
  /\ Len(ingested) >= 2
  /\ CommonBlockTotal(info) > 0
  /\ Has(out.object_data, BSS)
  /\ Len(out.object_data[BSS]) > MaxSegLen
  /\ Has(out.object_data, GOT)

(* C6 (as stated): after a successful link nsegs is the number of output  *)
(* segments and there are as many data buffers as output segments.        *)
C6_SegmentCounts ==
  result = "Ok" =>
    /\ out.nsegs = Cardinality(DOMAIN out.segments)
    /\ Cardinality(DOMAIN out.object_data) = Cardinality(DOMAIN out.segments)

(* pairs of output segments that are present, in layout order *)
OrderedPairs ==
  {p \in (1..Len(SegmentNameOrder)) \X (1..Len(SegmentNameOrder)) :
     /\ p[1] < p[2]
     /\ Has(out.segments, SegmentNameOrder[p[1]])
     /\ Has(out.segments, SegmentNameOrder[p[2]])}

StartOf(i) == out.segments[SegmentNameOrder[i]].segment_start
LenOf(i) == out.segments[SegmentNameOrder[i]].segment_len

Aligned ==
  /\ (data_start_boundary > 0 /\ Has(out.segments, DATA))
       => out.segments[DATA].segment_start % data_start_boundary = 0
  /\ (bss_start_boundary > 0 /\ Has(out.segments, BSS))
       => out.segments[BSS].segment_start % bss_start_boundary = 0

(* C7 (as stated): after a successful link the starts of the segments     *)
(* present increase strictly in the order .text, .got, .data, .bss, and   *)
(* .data and .bss start at multiples of their boundaries.                 *)
C7_StrictOrder ==
  result = "Ok" =>
    /\ \A p \in OrderedPairs : StartOf(p[1]) < StartOf(p[2])
    /\ Aligned

(* C7 (amended): after a successful link the starts of the segments       *)
(* present do not decrease in the order .text, .got, .data, .bss, they    *)
(* increase strictly from a segment of non-zero length to the segments    *)
(* after it, and .data and .bss start at multiples of their boundaries.   *)
C7_OrderUpToEmptySegments ==
  result = "Ok" =>
    /\ \A p \in OrderedPairs :
         /\ StartOf(p[1]) <= StartOf(p[2])
         /\ LenOf(p[1]) > 0 => StartOf(p[1]) < StartOf(p[2])
    /\ Aligned

(* a zero-length .text makes .data start where .text starts *)
C7_Witness ==
  /\ result = "Ok"
  /\ out.segments[TEXT].segment_len = 0
  /\ out.segments[DATA].segment_start = out.segments[TEXT].segment_start
  /\ Has(out.segments, BSS)

(* C8: after a successful link .text starts at text_start; the length of  *)
(* each output segment, less the common blocks, is the sum of the lengths *)
(* the ingested modules give it; .data starts at the end of .got (of      *)
(* .text without a GOT) aligned up to data_start_boundary; .bss starts at *)
(* the end of .data aligned up to bss_start_boundary; and the offset      *)
(* recorded for a module's segment is the start of the output segment     *)
(* plus the lengths given to it by the modules ingested earlier.          *)
C8_Layout ==
  result = "Ok" =>
    /\ out.segments[TEXT].segment_start = text_start
    /\ \A s \in InputSegNames \cap DOMAIN out.segments :
         out.segments[s].segment_len - CommonPart(s) = ContributedBy(Len(ingested), s)
    /\ out.segments[DATA].segment_start
         = AlignUp(IF Has(out.segments, GOT) THEN SegEnd(out, GOT) ELSE SegEnd(out, TEXT),
                   data_start_boundary)
    /\ Has(out.segments, BSS) =>
         out.segments[BSS].segment_start = AlignUp(SegEnd(out, DATA), bss_start_boundary)
    /\ DOMAIN info.segment_mapping = {ingested[k] : k \in 1..Len(ingested)}
    /\ \A k \in 1..Len(ingested) :
         /\ DOMAIN info.segment_mapping[ingested[k]]
              = {session_objects[ingested[k]].segments[i].segment_name :
                   i \in 1..Len(session_objects[ingested[k]].segments)}
         /\ \A s \in DOMAIN info.segment_mapping[ingested[k]] :
              info.segment_mapping[ingested[k]][s]
                = out.segments[s].segment_start + ContributedBy(k - 1, s)

(* three modules, two of them pulled from a library, and an aligned .data *)
C8_Witness ==
  /\ result = "Ok"
  /\ Len(ingested) = 3
  /\ static_libs # <<>>
  /\ out.segments[DATA].segment_start > SegEnd(out, TEXT)
  /\ info.segment_mapping[ingested[3]][DATA] > info.segment_mapping[ingested[2]][DATA]

(* C9: the size kept for a common block is the largest value among the    *)
(* Undefined declarations of non-zero value of its name in the ingested   *)
(* modules; a name declared only in that way has no entry in the global   *)
(* symbol table; and after a successful link the length of .bss is the    *)
(* sum of the modules' .bss lengths plus the sum of the sizes kept, .bss  *)
(* being made at the aligned end of .data when no module had one.         *)
C9_CommonBlocks ==
  /\ \A n \in SymNames :
       IF CommonDecls(n) = {}
       THEN ~Has(info.common_block_mapping, n)
       ELSE /\ Has(info.common_block_mapping, n)
            /\ info.common_block_mapping[n] = Max(CommonDecls(n))
  /\ \A n \in DOMAIN Gst :
       \E m \in DOMAIN info.symbol_tables :
         \E i \in 1..Len(info.symbol_tables[m]) :
           /\ info.symbol_tables[m][i].st_name = n
           /\ ~(info.symbol_tables[m][i].st_type = "U"
                /\ info.symbol_tables[m][i].st_value # 0)
  /\ (result = "Ok" /\ CommonBlockTotal(info) > 0) =>
       /\ Has(out.segments, BSS)
       /\ out.segments[BSS].segment_len
            = ContributedBy(Len(ingested), BSS) + CommonBlockTotal(info)
       /\ (\A k \in 1..Len(ingested) :
             \A i \in 1..Len(session_objects[ingested[k]].segments) :
               session_objects[ingested[k]].segments[i].segment_name # BSS)
            => out.segments[BSS].segment_start
                 = AlignUp(SegEnd(out, DATA), bss_start_boundary)

(* a name declared as a common block with two sizes, the larger first *)
C9_Witness ==
  /\ result = "Ok"
  /\ \E n \in SymNames :
       /\ Cardinality(CommonDecls(n)) > 1
       /\ n \notin DOMAIN Gst
       /\ \E i \in 1..Len(session_objects[ingested[1]].symbol_table) :
            /\ session_objects[ingested[1]].symbol_table[i].st_name = n
            /\ session_objects[ingested[1]].symbol_table[i].st_value = Max(CommonDecls(n))

(* C10 (as stated): after a successful link the output has a .got segment *)
(* exactly when a module of the session, input or pulled from a library,  *)
(* has a GP4 relocation; the segment starts at the end of .text, and its  *)
(* length and its data buffer are 4 bytes for each GP4 relocation of the  *)
(* session.                                                               *)
C10_GotSegment ==
  result = "Ok" =>
    /\ Has(out.segments, GOT) <=> GP4Count > 0
    /\ Has(out.segments, GOT) =>
         /\ out.segments[GOT].segment_start = SegEnd(out, TEXT)
         /\ out.segments[GOT].segment_len = GotSlotSize * GP4Count
         /\ Has(out.object_data, GOT)
         /\ Len(out.object_data[GOT]) = GotSlotSize * GP4Count

(* ---- relocation steps ---- *)
(* the relocation the next step of the loop applies, and its module *)
CurRel == Head(pending_rels).r
CurMod == Head(pending_rels).modname
CurLocOff == info.segment_mapping[CurMod][CurRel.rel_seg] + CurRel.rel_loc
               - out.segments[CurRel.rel_seg].segment_start
RelocStep(ty) == pc = "reloc" /\ pending_rels # <<>> /\ CurRel.rel_type \in ty

(* the four bytes, most significant first, of a number in 0 .. 2^31 - 1 *)
BigEndian(v) ==
  <<v \div 16777216, (v \div 65536) % 256, (v \div 256) % 256, v % 256>>

Bytes(o, seg, off, len) == SubSeq(o.object_data[seg], off + 1, off + len)

(* the address of the symbol the relocation refers to *)
CurSymAddr ==
  Unwrap(Unwrap(Gst[session_objects[CurMod].symbol_table[CurRel.rel_ref[2] + 1].st_name].defn)
           .defn_addr)

CountGP4(rels) == Cardinality({i \in 1..Len(rels) : rels[i].r.rel_type = "GP4"})

(* the number of GP4 relocations the loop has gone through *)
ProcessedGP4 ==
  CountGP4(RelocationsInOrder(session_objects, SortBy(IdOrder, DOMAIN session_objects)))
    - CountGP4(pending_rels)

(* C11 (as stated): the k-th GP4 relocation of a link, k from 0, puts the *)
(* address of its symbol in the four bytes of .got at 4k and the number  *)
(* 4k in the four bytes at its location; no slot is used twice and the    *)
(* GOT cursor stays within the length of .got.                            *)
C11_GotSlots ==
  [][RelocStep({"GP4"}) =>
       /\ Has(out'.object_data, GOT)
       /\ got_offset = GotSlotSize * ProcessedGP4
       /\ got_offset' = got_offset + GotSlotSize
       /\ got_offset' <= Len(out'.object_data[GOT])
       /\ Bytes(out', GOT, got_offset, 4) = BigEndian(CurSymAddr)
       /\ Bytes(out', CurRel.rel_seg, CurLocOff, 4) = BigEndian(got_offset)]_vars

(* the segment a segment relocation refers to *)
CurTargetSeg == session_objects[CurMod].segments[CurRel.rel_ref[2] + 1].segment_name

(* C12 (as stated): an A4 relocation of any module puts the offset of the *)
(* target segment of its module in the four bytes at loc_off of the       *)
(* output segment that holds it, and an ER4 output relocation with the    *)
(* location loc_off in that segment is appended.                          *)
C12_AbsoluteSegmentRef ==
  [][RelocStep({"A4"}) =>
       /\ Bytes(out', CurRel.rel_seg, CurLocOff, 4)
            = BigEndian(info.segment_mapping[CurMod][CurTargetSeg])
       /\ out'.relocations
            = Append(out.relocations, Rel(CurLocOff, CurRel.rel_seg, NoRef, "ER4"))]_vars

(* the i32 whose two's complement form is the four bytes *)
SignedValue(b) ==
  (IF b[1] >= 128 THEN b[1] - 256 ELSE b[1]) * 16777216 + b[2] * 65536 + b[3] * 256 + b[4]

(* the two's complement form, four bytes, of an i32 *)
SignedBigEndian(v) ==
  IF v >= 0 THEN BigEndian(v)
  ELSE [BigEndian(v + 2147483647 + 1) EXCEPT ![1] = @ + 128]

(* a + b is an i32 *)
Representable(a, b) ==
  /\ a >= 0 => b <= 2147483647 - a
  /\ a < 0 => b >= (-2147483647 - 1) - a

CurName == session_objects[CurMod].symbol_table[CurRel.rel_ref[2] + 1].st_name
CurInBuffer(len) ==
  /\ Has(out.object_data, CurRel.rel_seg)
  /\ CurLocOff >= 0
  /\ CurLocOff + len <= Len(out.object_data[CurRel.rel_seg])

(* the address a relative relocation is relative to *)
CurTargetAddr ==
  IF CurRel.rel_type = "R4" THEN info.segment_mapping[CurMod][CurTargetSeg] ELSE CurSymAddr

CurNext == info.segment_mapping[CurMod][CurRel.rel_seg] + CurRel.rel_loc + 4

(* the step leaves every byte outside [off, off + len) of seg, and every  *)
(* other buffer, as it was                                                *)
OnlyPatched(seg, off, len) ==
  /\ DOMAIN out'.object_data = DOMAIN out.object_data
  /\ \A sg \in DOMAIN out.object_data :
       /\ Len(out'.object_data[sg]) = Len(out.object_data[sg])
       /\ \A i \in 1..Len(out.object_data[sg]) :
            (sg # seg \/ i <= off \/ i > off + len)
              => out'.object_data[sg][i] = out.object_data[sg][i]

(* C13 (as stated): a relative relocation, R4 to a segment or RS4 to a    *)
(* symbol, replaces the four bytes at loc_off by the i32                  *)
(* (offset of its segment + loc + 4) - target address + addend, addend    *)
(* being the i32 stored there before; no other byte changes and no output *)
(* relocation is added.  Stated for relocations inside the buffer whose   *)
(* symbol has a definition and whose value is an i32.                     *)
C13_RelativeRefs ==
  [][(/\ RelocStep({"R4", "RS4"})
      /\ CurInBuffer(4)
      /\ CurRel.rel_type = "RS4" => Has(Gst, CurName)
      /\ Representable(CurNext - CurTargetAddr,
                       SignedValue(Bytes(out, CurRel.rel_seg, CurLocOff, 4)))) =>
       /\ Bytes(out', CurRel.rel_seg, CurLocOff, 4)
            = SignedBigEndian(CurNext - CurTargetAddr
                                + SignedValue(Bytes(out, CurRel.rel_seg, CurLocOff, 4)))
       /\ OnlyPatched(CurRel.rel_seg, CurLocOff, 4)
       /\ out'.relocations = out.relocations]_vars

(* the two numbers an AS4 or ER4 relocation adds *)
CurStored == SignedValue(Bytes(out, CurRel.rel_seg, CurLocOff, 4))
CurBase == IF CurRel.rel_type = "AS4" THEN CurSymAddr ELSE text_start

(* a + b lies in 0 .. 0xFFFFFFFF, for i32 a and b *)
FitsUnsigned(a, b) ==
  \/ a >= 0 /\ b >= 0
  \/ Representable(a, b) /\ a + b >= 0

(* the four bytes of a + b when it lies in 0 .. 0xFFFFFFFF *)
UnsignedBigEndian(a, b) ==
  IF Representable(a, b) THEN BigEndian(a + b)
  ELSE SignedBigEndian((((a - 2147483647) - 1) + b - 2147483647) - 1)

(* C14 (as stated, for the kinds that add two numbers): an AS4 or ER4     *)
(* relocation ends the link with AddressOverflowError exactly when the    *)
(* sum of the address and the stored addend lies outside 0 .. 0xFFFFFFFF, *)
(* and otherwise stores the four bytes of that sum.                       *)
C14_OverflowIsReported ==
  [][(/\ RelocStep({"AS4", "ER4"})
      /\ CurInBuffer(4)
      /\ CurRel.rel_type = "AS4" => Has(Gst, CurName)) =>
       IF FitsUnsigned(CurBase, CurStored)
       THEN /\ result' = result
            /\ Bytes(out', CurRel.rel_seg, CurLocOff, 4)
                 = UnsignedBigEndian(CurBase, CurStored)
       ELSE result' = "AddressOverflowError"]_vars

(* C15 (as stated): for every x and every n >= 0 the start returned by     *)
(* find_seg_start(x, n) is at least x, is a multiple of n when n > 0, is  *)
(* x when n = 0, and lies less than n above x when n > 0, negative x      *)
(* included.                                                              *)
C15_AlignUp ==
  IsSome(fs_start) =>
    LET y == Unwrap(fs_start)
    IN /\ y >= fs_i
       /\ fs_n > 0 => y % fs_n = 0
       /\ fs_n = 0 => y = fs_i
       /\ fs_n > 0 => y - fs_i < fs_n

(* the library modules registered in the session, in order *)
LibIngested == SelectSeq(ingested, LAMBDA id : id \notin DOMAIN objs_in)

(* the names a module declares without defining them *)
UndefinedIn(m) ==
  {m.symbol_table[i].st_name : i \in {j \in 1..Len(m.symbol_table) :
                                        ~is_defined(m.symbol_table[j])}}

(* C16: no library object is handed to the allocation of storage and      *)
(* symbol tables twice during a link, however many queued names it        *)
(* defines: the ids pulled are pairwise different, the library modules    *)
(* registered are exactly the ones pulled (but the last, when its         *)
(* allocation failed), once each, and they are the visited set.           *)
C16_PulledOnce ==
  /\ \A j, k \in 1..Len(pulled) : j # k => pulled[j] # pulled[k]
  /\ \/ LibIngested = pulled
     \/ /\ result \in Errors
        /\ pulled # <<>>
        /\ LibIngested = SubSeq(pulled, 1, Len(pulled) - 1)
  /\ visited_libs_objs = {LibIngested[j] : j \in 1..Len(LibIngested)}

(* a link that succeeded after one library module was pulled that defines *)
(* two of the names the input modules left undefined                      *)
C16_Witness ==
  /\ result = "Ok"
  /\ Len(pulled) = 1
  /\ Cardinality(DefinedNames(session_objects[pulled[1]])
                   \cap UNION {UndefinedIn(objs_in[id]) : id \in DOMAIN objs_in}) >= 2

(* the name a step of the library worklist processes *)
CurUndef == undef_syms[Len(undef_syms)]

(* the not yet pulled modules of a library that define a name *)
OfferedBy(lib, n) ==
  IF lib.kind = "DirLib"
  THEN {m \in DOMAIN lib.symbols :
          m \notin visited_libs_objs /\ n \in lib.symbols[m] /\ Has(lib.objects, m)}
  ELSE IF lib.kind = "Stub" THEN {}
  ELSE {FileLibObjId(lib.libname, lib.symbols[x]) : x \in
          {y \in DOMAIN lib.symbols :
             /\ y = n
             /\ lib.symbols[y] + 1 \in 1..Len(lib.objects)
             /\ FileLibObjId(lib.libname, lib.symbols[y]) \notin visited_libs_objs}}

(* the libraries of the list that offer the name being processed *)
Offering == {k \in 1..Len(static_libs) : OfferedBy(static_libs[k], CurUndef) # {}}

(* C17 (as stated): when several libraries of the list hold a not yet     *)
(* pulled module defining the name being processed, the step pulls one    *)
(* module only, a module of the first such library in list order,         *)
(* whatever the kinds of the libraries.                                   *)
C17_FirstLibraryWins ==
  [][(/\ pc = "libs"
      /\ undef_syms # <<>>
      /\ Cardinality(Offering) >= 2) =>
       LET first == CHOOSE k \in Offering : \A j \in Offering : k <= j
       IN \E id \in OfferedBy(static_libs[first], CurUndef) :
            pulled' = Append(pulled, id)]_vars

(* the modules kept in the listed libraries, and the input modules *)
LibMembers ==
  UNION {{<<k, x>> : x \in DOMAIN static_libs[k].objects} :
           k \in {j \in 1..Len(static_libs) : static_libs[j].kind # "Stub"}}
LibMemberObj(p) == static_libs[p[1]].objects[p[2]]
InputModules == {objs_in[id] : id \in DOMAIN objs_in}

(* the modules, of the input or of a library, that define a name *)
DefinersOf(n) ==
  Cardinality({id \in DOMAIN objs_in : n \in DefinedNames(objs_in[id])})
    + Cardinality({p \in LibMembers : n \in DefinedNames(LibMemberObj(p))})

(* the names left undefined by the input modules, by the library modules  *)
(* that define them, by the library modules that define those, and so on  *)
RECURSIVE Chain(_)
Chain(names) ==
  LET more == UNION {UndefinedIn(LibMemberObj(p)) :
                       p \in {q \in LibMembers :
                                DefinedNames(LibMemberObj(q)) \cap names # {}}}
  IN IF more \subseteq names THEN names ELSE Chain(names \cup more)
ChainNames ==
  Chain(UNION {UndefinedIn(m) : m \in InputModules}
          \ UNION {DefinedNames(m) : m \in InputModules})

(* no module of the session or of a library declares a common block *)
NoCommonBlocks ==
  \A m \in InputModules \cup {LibMemberObj(p) : p \in LibMembers} :
    \A i \in 1..Len(m.symbol_table) : ~is_common_block(m.symbol_table[i])

(* C18 (as stated): when the input modules declare no relocation, no      *)
(* common block is declared and no name has two defining modules, a link  *)
(* against libraries ends with Ok if every name of the chain of undefined *)
(* names has a defining module, and with UndefinedSymbolError otherwise.  *)
C18_TransitiveSatisfaction ==
  (/\ pc = "done"
   /\ static_libs # <<>>
   /\ routine_names = <<>>
   /\ NoCommonBlocks
   /\ \A m \in InputModules \cup {LibMemberObj(p) : p \in LibMembers} :
        m.relocations = <<>>
   /\ \A n \in SymNames : DefinersOf(n) <= 1) =>
     IF \A n \in ChainNames : DefinersOf(n) = 1
     THEN result = "Ok"
     ELSE result = "UndefinedSymbolError"

(* the wrap names given to link *)
WrapNames == {routine_names[i] : i \in 1..Len(routine_names)}

(* C19 (as stated): after a successful link with wrap names, every symbol *)
(* of every module of the session whose name is a wrap name is Wrapped    *)
(* and the global symbol table has an entry under that Wrapped name, no   *)
(* entry of the table is under the plain wrap name, and every other       *)
(* symbol stays plain.                                                    *)
C19_WrappedEverywhere ==
  (result = "Ok" /\ routine_names # <<>>) =>
    /\ \A id \in DOMAIN session_objects :
         \A i \in 1..Len(session_objects[id].symbol_table) :
           LET st_name == session_objects[id].symbol_table[i].st_name
           IN IF Deref(st_name) \in WrapNames
              THEN st_name = WrappedSName(Deref(st_name)) /\ Has(Gst, st_name)
              ELSE st_name = Deref(st_name)
    /\ \A n \in WrapNames : ~Has(Gst, n)

(* an input module, as given to link, has a symbol named wrap_X or real_X  *)
(* for a wrap name X                                                      *)
ClashingName ==
  \E x \in WrapNames : \E id \in DOMAIN objs_arg :
    \E i \in 1..Len(objs_arg[id].symbol_table) :
      objs_arg[id].symbol_table[i].st_name \in {"wrap_" \o x, "real_" \o x}

(* C20 (as stated): when an input module has a symbol named wrap_X or     *)
(* real_X for a wrap name X, the link ends with                           *)
(* WrappedSymbolNameAlreadyExists, wherever the symbol stands.            *)
C20_WrapNameClash ==
  (pc # "wrap" /\ pc # "idle" /\ ClashingName) =>
    result = "WrappedSymbolNameAlreadyExists"

(* position of a module in the order of ingestion *)
IngestRank(id) ==
  IF \E k \in 1..Len(ingested) : ingested[k] = id
  THEN CHOOSE k \in 1..Len(ingested) : ingested[k] = id
  ELSE 0

(* C27 (as stated): the relocations still to be applied stand module by   *)
(* module in the order in which the modules were ingested, input modules  *)
(* first and library modules after them in the order they were pulled.    *)
C27_RelocationOrder ==
  pc = "reloc" =>
    \A i, j \in 1..Len(pending_rels) :
      i < j => IngestRank(pending_rels[i].modname) <= IngestRank(pending_rels[j].modname)

(* the name taken from the worklist has an entry of the global symbol     *)
(* table whose definition slot is empty                                   *)
CurSlotEmpty == Has(Gst, CurUndef) /\ IsNone(Gst[CurUndef].defn)

(* C28 (as stated): a step of the library worklist hands a library module *)
(* to the allocation only when the name it took has an empty definition   *)
(* slot; a name that has a definition, or is known as a common block      *)
(* only, pulls nothing.                                                   *)
C28_PullOnlyForUndefined ==
  [][(pc = "libs" /\ undef_syms # <<>> /\ ~CurSlotEmpty) => pulled' = pulled]_vars

(* C29: once the link is in the library worklist it leaves it: the loop *)
(* of static_libs_symbol_lookup ends, with an error or with an empty      *)
(* worklist, also when library modules refer to one another in a cycle,   *)
(* when a name is listed more than once and when no module defines it.    *)
C29_LibrarySatisfactionEnds == (pc = "libs") ~> (pc # "libs")

(* the worklist drained after two library modules were pulled each of     *)
(* which declares undefined a name the other defines                      *)
C29_Witness ==
  /\ pc = "layout"
  /\ undef_syms = <<>>
  /\ Len(pulled) = 2
  /\ DefinedNames(session_objects[pulled[1]]) \cap UndefinedIn(session_objects[pulled[2]]) # {}
  /\ DefinedNames(session_objects[pulled[2]]) \cap UndefinedIn(session_objects[pulled[1]]) # {}

(* ---- C30 ---- *)
(* the slice of the output segment the relocation addresses that holds    *)
(* the bytes of the module owning the relocation: positions (counted from *)
(* 1) CurSliceStart + 1 .. CurSliceStart + CurSliceLen                    *)
CurSliceStart ==
  info.segment_mapping[CurMod][CurRel.rel_seg] - out.segments[CurRel.rel_seg].segment_start
CurSliceLen == SegLenOf(session_objects[CurMod], CurRel.rel_seg)

(* C30 (as stated): a relocation step changes no byte outside the slice   *)
(* of its own module in the segment it addresses; the bytes of the other  *)
(* modules, the other segments and, unless the relocation is a GP4, the   *)
(* .got segment stay as they were, whatever loc the relocation carries.   *)
C30_RelocationFrame ==
  [][RelocStep(RelTypes) =>
       /\ DOMAIN out'.object_data = DOMAIN out.object_data
       /\ \A sg \in DOMAIN out.object_data :
            /\ Len(out'.object_data[sg]) = Len(out.object_data[sg])
            /\ \A i \in 1..Len(out.object_data[sg]) :
                 out'.object_data[sg][i] # out.object_data[sg][i]
                   => \/ /\ sg = CurRel.rel_seg
                         /\ CurSliceStart < i
                         /\ i <= CurSliceStart + CurSliceLen
                      \/ sg = GOT /\ CurRel.rel_type = "GP4"]_vars

(* ---- C26 ---- *)
(* Defn::shared_lib_defn *)
shared_lib_defn(defn_mod_id, addr, libname) ==
  [defn_mod_id |-> defn_mod_id, defn_ste_ix |-> None, defn_addr |-> Some(addr),
   defn_prov |-> <<"FromSharedLib", libname>>]

(* the (library, address) pairs under which a member of a listed stub     *)
(* library exports the name n with an absolute address                    *)
StubExports(n) ==
  UNION {{<<static_libs[k].libname, static_libs[k].members[m].syms[n][2]>> :
            m \in {x \in DOMAIN static_libs[k].members :
                     /\ Has(static_libs[k].members[x].syms, n)
                     /\ static_libs[k].members[x].syms[n][1] = "Left"}} :
           k \in {j \in 1..Len(static_libs) : static_libs[j].kind = "Stub"}}

(* a module of the session, input or pulled, defines the name *)
DefinedInSession(n) == \E id \in DOMAIN session_objects : n \in DefinedNames(session_objects[id])

(* C26 (as stated): once library satisfaction is over, a name known to    *)
(* the global symbol table that no module of the session defines and that *)
(* a member of a listed stub library exports with an absolute address has *)
(* a definition of provenance FromSharedLib(libname) whose address is the *)
(* address read from the stub.                                            *)
C26_StubDefinition ==
  pc \in {"layout", "common", "undef_check"} =>
    \A n \in DOMAIN Gst :
      (StubExports(n) # {} /\ ~DefinedInSession(n)) =>
        /\ IsSome(Gst[n].defn)
        /\ \E e \in StubExports(n) :
             Unwrap(Gst[n].defn)
               = shared_lib_defn(Unwrap(Gst[n].defn).defn_mod_id, e[2], e[1])

(* ---- C25 ---- *)
(* C25 (as stated): a call of link on an editor that has linked before    *)
(* returns what the same call returned on the editor as created: the same *)
(* error, or Ok with the same output and the same info, whether the calls *)
(* in between succeeded or failed.                                        *)
C25_SessionsIndependent ==
  (calls = 3 /\ pc = "done") => LinkResult = Unwrap(first_link).returned

(* ---- C22 ---- *)
(* C22 (as stated): a module parse_object_file returns holds as many      *)
(* segments, symbols and relocations as its three counts say, one data    *)
(* block a segment, and each data block has the length of its segment,    *)
(* whatever i32 the counts of the file spell.                             *)
C22_CountsMatch ==
  \A id \in DOMAIN ParsedObjects :
    LET m == ParsedObjects[id]
    IN /\ Len(m.segments) = m.nsegs
       /\ Len(m.symbol_table) = m.nsyms
       /\ Len(m.relocations) = m.nrels
       /\ Len(m.object_data) = m.nsegs
       /\ \A i \in 1..Len(m.object_data) :
            i <= Len(m.segments) /\ Len(m.object_data[i]) = m.segments[i].segment_len

(* ---- C23 ---- *)
(* C23 (as stated): parsing the text ppr(true) prints for a parsed module *)
(* returns Ok with a module equal to it, counts of zero included.         *)
C23_PrintParseRoundTrip ==
  of.pc \in {"log", "build", "parse_lib", "done"} =>
    \A id \in DOMAIN ParsedObjects : of.reparsed[id] = Ok(ParsedObjects[id])

(* ---- C24 ---- *)
(* C24 (as stated): parsing the library file written for files that all   *)
(* parse returns a FileLib holding the modules of the files in the order  *)
(* of the file names, each equal to the module parsed from its file, and  *)
(* a directory that sends every Defined name to a module defining it.     *)
C24_FileLibRoundTrip ==
  (of.pc = "done" /\ DOMAIN ParsedObjects # {} /\ DOMAIN ParsedObjects = DOMAIN of.files) =>
    LET ids == SortBy(IdOrder, DOMAIN ParsedObjects)
    IN /\ IsSome(of.lib)
       /\ Unwrap(of.lib).ok
       /\ LET lib == Unwrap(Unwrap(of.lib).val)
          IN /\ lib.objects = [k \in 1..Len(ids) |-> ParsedObjects[ids[k]]]
             /\ \A k \in 1..Len(ids) :
                  \A n \in DefinedNames(ParsedObjects[ids[k]]) :
                    /\ Has(lib.symbols, n)
                    /\ lib.symbols[n] + 1 \in 1..Len(ids)
                    /\ n \in DefinedNames(ParsedObjects[ids[lib.symbols[n] + 1]])

(* ---- C21 ---- *)
(* a line of the text starts with the piece tok *)
NamePrinted(text, tok) == \E k \in 1..Len(text) : text[k] # <<>> /\ text[k][1] = tok

(* C21 (as stated): in the text printed for an object of the session a    *)
(* symbol Wrapped(X) that is Defined appears as real_X and not as wrap_X, *)
(* one that is Undefined as wrap_X and not as real_X.                     *)
C21_WrappedNamesPrinted ==
  \A id \in DOMAIN of.logged :
    \A i \in 1..Len(of.logged[id].obj.symbol_table) :
      LET ste == of.logged[id].obj.symbol_table[i]
          X == Deref(ste.st_name)
      IN ste.st_name # X =>
           IF ste.st_type = "D"
           THEN /\ NamePrinted(of.logged[id].text, "real_" \o X)
                /\ ~NamePrinted(of.logged[id].text, "wrap_" \o X)
           ELSE /\ NamePrinted(of.logged[id].text, "wrap_" \o X)
                /\ ~NamePrinted(of.logged[id].text, "real_" \o X)

====
